---- MODULE Spec2Model ----
(***************************************************************************)
(* Model of the video-trimmer server (src/api/index.js and the standalone *)
(* server src/unnamed/part_000): upload, batch processing, archive         *)
(* creation, file retrieval and cleanup over a scratch file system.        *)
(*                                                                         *)
(* Strings are sequences of tokens (a token is one character or an atom    *)
(* such as ".mp4"); "/" is the path separator token.  A path is a sequence *)
(* of segments below the scratch root, each segment a string.  Times are   *)
(* JavaScript numbers: binary floating-point values, written as integer    *)
(* multiples of the smallest unit in use, whose differences are rounded to *)
(* the significand's width.                                                *)
(***************************************************************************)
EXTENDS Integers, Sequences, FiniteSets, TLC

\* ---------------------------------------------------------------- bounds
MaxDur == 3        \* longest media duration a client file has
MaxCut == 2        \* largest start/end cut a request carries
MaxUploads == 1    \* Upload requests served in one behaviour
MaxOps == 2        \* Cleanup and Retrieve requests served in one behaviour
MaxRepeats == 1    \* further Process requests a client sends after its first
MantissaBits == 3  \* width of the significand of a number (53 in the program)

VARIABLES
    variant,     \* which server build runs: its TrimExecutor policy
    dirs,        \* the directories that exist (set of paths)
    files,       \* the regular files that exist: path -> content
    uploaded,    \* the Upload responses sent so far
    nuuid,       \* uuidv4() values drawn for stored upload names
    nupload,     \* Upload requests served so far
    nops,        \* Cleanup and Retrieve requests served so far
    nproc,       \* further Process requests sent so far
    proc,        \* the /api/process requests: slot -> handler state
    jobs,        \* external engine processes in flight
    engineLog,   \* transcript of the engine: every probe/transform start and end
    zipreq,      \* the /api/create-zip requests: slot -> handler state
    cleanups,    \* session id -> Cleanup responses sent for it
    last,        \* the response of the latest single-step request
    client       \* the browser client: state of App and of its running flow

vars == <<variant, dirs, files, uploaded, nuuid, nupload, nops, nproc, proc, jobs, engineLog, zipreq, cleanups, last, client>>

\* ------------------------------------------------------- strings and paths
RECURSIVE SplitSlash(_)
SplitSlash(s) ==
    IF s = <<>> THEN << <<>> >>
    ELSE LET rest == SplitSlash(Tail(s)) IN
         IF Head(s) = "/" THEN << <<>> >> \o rest
         ELSE << <<Head(s)>> \o Head(rest) >> \o Tail(rest)

RECURSIVE Normalize(_, _)
Normalize(acc, segs) ==
    IF segs = <<>> THEN acc
    ELSE LET h == Head(segs) IN
         Normalize(IF h = <<>> \/ h = <<".">> THEN acc
                   ELSE IF h = <<"..">>
                        THEN (IF acc = <<>> THEN acc ELSE SubSeq(acc, 1, Len(acc) - 1))
                        ELSE Append(acc, h),
                   Tail(segs))

\* path.join(dir, s): s is split at "/" and "." / ".." segments are resolved
PathJoin(dir, s) == Normalize(dir, SplitSlash(s))

UPLOAD_DIR == << <<"uploads">> >>
OUTPUT_DIR == << <<"output">> >>
ZIP_DIR    == << <<"zips">> >>

IsPrefix(p, q) == Len(p) <= Len(q) /\ SubSeq(q, 1, Len(p)) = p
Parent(p) == SubSeq(p, 1, Len(p) - 1)

\* fs.pathExists
PathExists(p) == p \in dirs \/ p \in DOMAIN files

\* fs.ensureDir: the directory and its missing ancestors
EnsureDir(ds, p) == ds \cup {SubSeq(p, 1, k) : k \in 1..Len(p)}

\* fs.remove: the path and everything below it; a missing path is not an error
RemoveDirs(ds, p) == {d \in ds : ~IsPrefix(p, d)}
RemoveFiles(fs, p) == [q \in {x \in DOMAIN fs : ~IsPrefix(p, x)} |-> fs[q]]

WriteFile(fs, p, c) == [q \in DOMAIN fs \cup {p} |-> IF q = p THEN c ELSE fs[q]]

\* path.extname: the last token when it is an extension and not the whole name
ExtTokens == {".mp4", ".mov", ".avi", ".mkv", ".webm", ".txt"}
ExtName(name) ==
    IF Len(name) > 1 /\ name[Len(name)] \in ExtTokens THEN <<name[Len(name)]>> ELSE <<>>

\* String.prototype.trim
RECURSIVE TrimLeft(_)
TrimLeft(s) == IF s # <<>> /\ Head(s) = " " THEN TrimLeft(Tail(s)) ELSE s
RECURSIVE TrimRight(_)
TrimRight(s) ==
    IF s # <<>> /\ s[Len(s)] = " " THEN TrimRight(SubSeq(s, 1, Len(s) - 1)) ELSE s
\* variant of Trim that strips leading whitespace only (trimStart)
TrimStartOnly(s) == TrimLeft(s)
Trim(s) == TrimRight(TrimLeft(s))

\* ------------------------------------------------------------ file content
NoOrigin == [input |-> <<>>, ss |-> 0, to |-> 0]
MediaContent(d, p, e, o) ==
    [kind |-> "media", duration |-> d, probeOk |-> p, encodeOk |-> e,
     origin |-> o, open |-> FALSE, entries |-> {}]
ZipContent(isOpen, es) ==
    [kind |-> "zip", duration |-> 0, probeOk |-> FALSE, encodeOk |-> FALSE,
     origin |-> NoOrigin, open |-> isOpen, entries |-> es]

\* ------------------------------------------------------------ client inputs
Media(d, p, e) == MediaContent(d, p, e, NoOrigin)
ClientFile(name, mime, m) == [originalname |-> name, mimetype |-> mime, media |-> m]

Good(d)     == ClientFile(<<"a", ".mp4">>, "video/mp4", Media(d, TRUE, TRUE))
Corrupt     == ClientFile(<<"b", ".mp4">>, "video/mp4", Media(0, FALSE, FALSE))
BadCodec(d) == ClientFile(<<"c", ".webm">>, "video/webm", Media(d, TRUE, FALSE))
Quicktime   == ClientFile(<<"m", ".mov">>, "video/quicktime", Media(1, TRUE, TRUE))

\* the batches a client uploads
Batches ==
    {<<>>, <<Quicktime>>}
    \cup {<<Good(d), Corrupt, Good(MaxDur)>> : d \in 1..MaxDur}
    \cup {<<Good(MaxDur), BadCodec(MaxDur), Good(1)>>, <<Good(1), Good(MaxDur)>>}

\* the values uuidv4() yields for sessions: the n-th differs from all before it
SessionId(n) == <<"s", ToString(n)>>
SessionIds == {SessionId(n) : n \in 1..MaxUploads}
UnknownId == <<"x9">>                   \* an identifier no Upload ever returned

\* a request field: given with a value, or absent
Absent(default) == [given |-> FALSE, v |-> default]
Given(x) == [given |-> TRUE, v |-> x]

\* raw trimStart / trimEnd of a request body: a number or a non-numeric string
Num(n) == [num |-> TRUE, v |-> n]
NotNum == [num |-> FALSE, v |-> 0]

\* an upload path that names no file
StalePath == UPLOAD_DIR \o << <<"0", "-", "gone", ".mp4">> >>
StaleFile == [originalName |-> <<"gone", ".mp4">>, uploadPath |-> StalePath]
InsertAt(l, k, x) == SubSeq(l, 1, k) \o <<x>> \o SubSeq(l, k + 1, Len(l))

\* a Range header: unit, then the texts before and after the first "-"
Part(k, v) == [k |-> k, v |-> v]
EmptyPart == Part("empty", 0)
JunkPart == Part("junk", 0)
NumPart(n) == Part("num", n)
Range(unit, a, b) == [unit |-> unit, a |-> a, b |-> b]

NoRange == Absent(Range("", EmptyPart, EmptyPart))

\* ------------------------------------------------------------------ responses
\* a response, with the parameters of the request it answers
Resp(op, sid, name, status) ==
    [op |-> op, sid |-> sid, name |-> name, range |-> NoRange, status |-> status,
     start |-> 0, end |-> 0, total |-> 0, length |-> 0, sent |-> 0]

\* ------------------------------------------------------------------- Upload
\* multer fileFilter: /mp4|mov|avi|mkv|webm/.test(s) is a substring search
RegexHit == {".mp4", ".mov", ".avi", ".mkv", ".webm", "video/mp4", "video/webm"}
AllowedTypes(s) == s \in RegexHit
FileFilter(f) ==
    LET ext == ExtName(f.originalname) IN
    /\ ext # <<>> /\ AllowedTypes(ext[1])
    /\ AllowedTypes(f.mimetype)

\* multer diskStorage filename: `${uuidv4()}-${file.originalname}` under UPLOAD_DIR
\* variant of StoredPath that stores a file under its original name alone
StoredPathByName(n, f) == UPLOAD_DIR \o << f.originalname >>
StoredPath(n, f) == UPLOAD_DIR \o << <<ToString(n), "-">> \o f.originalname >>

\* a multer error reaches the default error handler: nothing is stored
UploadRejected(batch) ==
    /\ \E k \in 1..Len(batch) : ~FileFilter(batch[k])
    /\ nupload < MaxUploads
    /\ nupload' = nupload + 1
    /\ last' = Resp("upload", <<>>, <<>>, 500)
    /\ UNCHANGED <<variant, dirs, files, uploaded, nuuid, nops, nproc, proc, jobs, engineLog, zipreq, cleanups, client>>

UploadNoFiles(batch) ==
    /\ Len(batch) = 0
    /\ nupload < MaxUploads
    /\ nupload' = nupload + 1
    /\ last' = Resp("upload", <<>>, <<>>, 400)
    /\ UNCHANGED <<variant, dirs, files, uploaded, nuuid, nops, nproc, proc, jobs, engineLog, zipreq, cleanups, client>>

\* uuidv4() for the session: a value never drawn before
FreshSessionIds == {SessionId(Cardinality(uploaded) + 1)}

UploadAccepted(batch) ==
    /\ Len(batch) > 0
    /\ \A k \in 1..Len(batch) : FileFilter(batch[k])
    /\ nupload < MaxUploads
    /\ nupload' = nupload + 1
    /\ \E sessionId \in FreshSessionIds :
         LET path(k) == StoredPath(nuuid + k, batch[k])
             stored == [q \in DOMAIN files \cup {path(k) : k \in 1..Len(batch)} |->
                          IF \E k \in 1..Len(batch) : q = path(k)
                          THEN batch[CHOOSE k \in 1..Len(batch) : q = path(k)].media
                          ELSE files[q]]
             resFiles == [k \in 1..Len(batch) |->
                            [originalName |-> batch[k].originalname,
                             uploadPath |-> path(k)]]
         IN /\ files' = stored
            /\ nuuid' = nuuid + Len(batch)
            /\ dirs' = EnsureDir(dirs, PathJoin(OUTPUT_DIR, sessionId))
            /\ uploaded' = uploaded \cup {[sessionId |-> sessionId, files |-> resFiles]}
            /\ last' = Resp("upload", sessionId, <<>>, 200)
    /\ UNCHANGED <<variant, nops, nproc, proc, jobs, engineLog, zipreq, cleanups, client>>

Upload(batch) == UploadRejected(batch) \/ UploadNoFiles(batch) \/ UploadAccepted(batch)

\* ------------------------------------------------------------------ Process
Variants == {"reencode", "streamcopy"}
Reqs == {"p1"}

\* req.body of a Process request
Body(sid, fl, ts, te, bn) ==
    [sessionId |-> sid, files |-> fl, trimStart |-> ts, trimEnd |-> te,
     outputBaseName |-> bn]
NoBody == Body(Absent(<<>>), Absent(<<>>), Absent(NotNum), Absent(NotNum), Absent(<<>>))

IdleProc ==
    [pc |-> "idle", body |-> NoBody, sessionId |-> <<>>, files |-> <<>>,
     trimStartSeconds |-> 0, trimEndSeconds |-> 0, baseName |-> <<>>,
     i |-> 0, processedFiles |-> <<>>, videoDuration |-> 0,
     status |-> 0, resFiles |-> <<>>]

\* variant of ParamsMissing that forgets the length test
ParamsMissingNoLength(body) ==
    \/ ~body.sessionId.given \/ body.sessionId.v = <<>>
    \/ ~body.files.given

\* !sessionId || !files || files.length === 0
ParamsMissing(body) ==
    \/ ~body.sessionId.given \/ body.sessionId.v = <<>>
    \/ ~body.files.given
    \/ Len(body.files.v) = 0

\* parseFloat(x) || 0
TrimSeconds(raw) == IF raw.given /\ raw.v.num THEN raw.v.v ELSE 0

\* outputBaseName ? outputBaseName.trim() : '', then || 'trimmed'
BaseName(raw) ==
    LET trimmedBaseName == IF raw.given /\ raw.v # <<>> THEN Trim(raw.v) ELSE <<>>
    IN IF trimmedBaseName # <<>> THEN trimmedBaseName ELSE <<"trimmed">>

ProcessBadRequest(r, body) ==
    /\ proc[r].pc = "idle"
    /\ ParamsMissing(body)
    /\ proc' = [proc EXCEPT ![r].pc = "done", ![r].body = body, ![r].status = 400]
    /\ UNCHANGED <<variant, dirs, files, uploaded, nuuid, nupload, nops, nproc, jobs, engineLog, zipreq, cleanups, last, client>>

\* variant of ProcessAccept that makes sure the session's output directory is
\* there before the loop starts
ProcessAcceptEnsuresDir(r, body) ==
    /\ proc[r].pc = "idle"
    /\ ~ParamsMissing(body)
    /\ dirs' = EnsureDir(dirs, PathJoin(OUTPUT_DIR, body.sessionId.v))
    /\ proc' = [proc EXCEPT ![r].pc = "loop",
                            ![r].body = body,
                            ![r].sessionId = body.sessionId.v,
                            ![r].files = body.files.v,
                            ![r].trimStartSeconds = TrimSeconds(body.trimStart),
                            ![r].trimEndSeconds = TrimSeconds(body.trimEnd),
                            ![r].baseName = BaseName(body.outputBaseName),
                            ![r].i = 0,
                            ![r].processedFiles = <<>>]
    /\ UNCHANGED <<variant, files, uploaded, nuuid, nupload, nops, nproc, jobs, engineLog, zipreq, cleanups, last, client>>

ProcessAccept(r, body) ==
    /\ proc[r].pc = "idle"
    /\ ~ParamsMissing(body)
    /\ proc' = [proc EXCEPT ![r].pc = "loop",
                            ![r].body = body,
                            ![r].sessionId = body.sessionId.v,
                            ![r].files = body.files.v,
                            ![r].trimStartSeconds = TrimSeconds(body.trimStart),
                            ![r].trimEndSeconds = TrimSeconds(body.trimEnd),
                            ![r].baseName = BaseName(body.outputBaseName),
                            ![r].i = 0,
                            ![r].processedFiles = <<>>]
    /\ UNCHANGED <<variant, dirs, files, uploaded, nuuid, nupload, nops, nproc, jobs, engineLog, zipreq, cleanups, last, client>>

\* the file of the current iteration (files[i], i counted from 0)
CurFile(r) == proc[r].files[proc[r].i + 1]

\* path.extname(file.originalName) || '.mp4'
OriginalExt(file) ==
    IF ExtName(file.originalName) # <<>> THEN ExtName(file.originalName) ELSE <<".mp4">>

\* `${baseName}_${i + 1}${originalExt}`
OutputFileName(baseName, i, file) ==
    baseName \o <<"_", ToString(i + 1)>> \o OriginalExt(file)

\* variant of CurOutputFileName that numbers by the count of successes
CurOutputFileNameByCount(r) ==
    OutputFileName(proc[r].baseName, Len(proc[r].processedFiles), CurFile(r))

\* variant of CurOutputFileName that numbers by the time of the call
CurOutputFileNameStamped(r) ==
    OutputFileName(proc[r].baseName, Len(engineLog), CurFile(r))

CurOutputFileName(r) ==
    OutputFileName(proc[r].baseName, proc[r].i, CurFile(r))

\* path.join(sessionDir, outputFileName), sessionDir = path.join(OUTPUT_DIR, sessionId)
OutputPath(sessionId, outputFileName) ==
    PathJoin(PathJoin(OUTPUT_DIR, sessionId), outputFileName)

Ev(r, idx, ev, input, output, ss, opt, val) ==
    [req |-> r, idx |-> idx, ev |-> ev, input |-> input, output |-> output,
     ss |-> ss, opt |-> opt, val |-> val]
ProbeEv(r, idx, ev, input, duration) == Ev(r, idx, ev, input, <<>>, 0, "", duration)

Job(r, idx, op) == [req |-> r, idx |-> idx, op |-> op]

\* res.json({sessionId, files: processedFiles}) after the loop
LoopDone(r) ==
    /\ proc[r].pc = "loop"
    /\ proc[r].i >= Len(proc[r].files)
    /\ proc' = [proc EXCEPT ![r].pc = "done", ![r].status = 200,
                            ![r].resFiles = proc[r].processedFiles]
    /\ UNCHANGED <<variant, dirs, files, uploaded, nuuid, nupload, nops, nproc, jobs, engineLog, zipreq, cleanups, last, client>>

\* variant of LoopSkipMissing that probes the missing path instead of skipping
LoopProbeMissing(r) ==
    /\ proc[r].pc = "loop"
    /\ proc[r].i < Len(proc[r].files)
    /\ ~PathExists(CurFile(r).uploadPath)
    /\ proc' = [proc EXCEPT ![r].pc = "probing"]
    /\ jobs' = jobs \cup {Job(r, proc[r].i, "ffprobe")}
    /\ engineLog' = Append(engineLog,
                           ProbeEv(r, proc[r].i, "probeStart", CurFile(r).uploadPath, 0))
    /\ UNCHANGED <<variant, dirs, files, uploaded, nuuid, nupload, nops, nproc, zipreq, cleanups, last, client>>

\* if (!await fs.pathExists(uploadPath)) continue
LoopSkipMissing(r) ==
    /\ proc[r].pc = "loop"
    /\ proc[r].i < Len(proc[r].files)
    /\ ~PathExists(CurFile(r).uploadPath)
    /\ proc' = [proc EXCEPT ![r].i = proc[r].i + 1]
    /\ UNCHANGED <<variant, dirs, files, uploaded, nuuid, nupload, nops, nproc, jobs, engineLog, zipreq, cleanups, last, client>>

\* ffmpeg.ffprobe(uploadPath, cb) is started and awaited
LoopProbe(r) ==
    /\ proc[r].pc = "loop"
    /\ proc[r].i < Len(proc[r].files)
    /\ PathExists(CurFile(r).uploadPath)
    /\ proc' = [proc EXCEPT ![r].pc = "probing"]
    /\ jobs' = jobs \cup {Job(r, proc[r].i, "ffprobe")}
    /\ engineLog' = Append(engineLog,
                           ProbeEv(r, proc[r].i, "probeStart", CurFile(r).uploadPath, 0))
    /\ UNCHANGED <<variant, dirs, files, uploaded, nuuid, nupload, nops, nproc, zipreq, cleanups, last, client>>

\* the engine's metadata probe: fails on a missing or unreadable input
ProbeSucceeds(path) == path \in DOMAIN files /\ files[path].probeOk
ProbedDuration(path) == files[path].duration

\* reject(err) of the probe is not caught inside the loop: the handler's outer
\* catch answers 500 and the loop is left
ProbeFail(r) ==
    /\ proc[r].pc = "probing"
    /\ ~ProbeSucceeds(CurFile(r).uploadPath)
    /\ jobs' = jobs \ {Job(r, proc[r].i, "ffprobe")}
    /\ engineLog' = Append(engineLog,
                           ProbeEv(r, proc[r].i, "probeErr", CurFile(r).uploadPath, 0))
    /\ proc' = [proc EXCEPT ![r].pc = "done", ![r].status = 500]
    /\ UNCHANGED <<variant, dirs, files, uploaded, nuuid, nupload, nops, nproc, zipreq, cleanups, last, client>>

\* planning: the re-encode build uses an absolute end time, the stream-copy
\* builds an output duration
\* the spacing of the representable numbers around the magnitude a
RECURSIVE Quantum(_)
Quantum(a) == IF a < 2^MantissaBits THEN 1 ELSE 2 * Quantum(a \div 2)

\* the representable number nearest to x, ties to the even significand
RoundFloat(x) ==
    LET a == IF x < 0 THEN -x ELSE x
        q == Quantum(a)
        lo == (a \div q) * q
        m == IF 2 * (a - lo) < q THEN lo
             ELSE IF 2 * (a - lo) > q THEN lo + q
             ELSE IF (lo \div q) % 2 = 0 THEN lo ELSE lo + q
    IN IF x < 0 THEN -m ELSE m

\* the operator - on two numbers: the exact difference, rounded
Minus(a, b) == RoundFloat(a - b)

EndTime(videoDuration, trimEndSeconds) == Minus(videoDuration, trimEndSeconds)
NewDuration(videoDuration, trimStartSeconds, trimEndSeconds) ==
    Minus(Minus(videoDuration, trimStartSeconds), trimEndSeconds)

\* variant of TooShort that lets an empty window through
TooShortStrict(v, videoDuration, trimStartSeconds, trimEndSeconds) ==
    IF v = "reencode"
    THEN EndTime(videoDuration, trimEndSeconds) < trimStartSeconds
    ELSE NewDuration(videoDuration, trimStartSeconds, trimEndSeconds) < 0

TooShort(v, videoDuration, trimStartSeconds, trimEndSeconds) ==
    IF v = "reencode"
    THEN EndTime(videoDuration, trimEndSeconds) <= trimStartSeconds
    ELSE NewDuration(videoDuration, trimStartSeconds, trimEndSeconds) <= 0

\* the options handed to ffmpeg: -ss S -to endTime, or -ss S -t newDuration
EngineArgs(v, videoDuration, trimStartSeconds, trimEndSeconds) ==
    IF v = "reencode"
    THEN [ss |-> trimStartSeconds, opt |-> "-to",
          val |-> EndTime(videoDuration, trimEndSeconds)]
    ELSE [ss |-> trimStartSeconds, opt |-> "-t",
          val |-> NewDuration(videoDuration, trimStartSeconds, trimEndSeconds)]

\* variant of PlanTooShort whose continue does not advance the loop index
PlanTooShortAgain(r) ==
    LET path == CurFile(r).uploadPath IN
    /\ proc[r].pc = "probing"
    /\ ProbeSucceeds(path)
    /\ TooShort(variant, ProbedDuration(path),
                proc[r].trimStartSeconds, proc[r].trimEndSeconds)
    /\ jobs' = jobs \ {Job(r, proc[r].i, "ffprobe")}
    /\ engineLog' = Append(engineLog,
                           ProbeEv(r, proc[r].i, "probeOk", path, ProbedDuration(path)))
    /\ proc' = [proc EXCEPT ![r].pc = "loop",
                            ![r].videoDuration = ProbedDuration(path)]
    /\ UNCHANGED <<variant, dirs, files, uploaded, nuuid, nupload, nops, nproc, zipreq, cleanups, last, client>>

\* probe resolved, endTime <= trimStartSeconds (newDuration <= 0): continue
PlanTooShort(r) ==
    LET path == CurFile(r).uploadPath IN
    /\ proc[r].pc = "probing"
    /\ ProbeSucceeds(path)
    /\ TooShort(variant, ProbedDuration(path),
                proc[r].trimStartSeconds, proc[r].trimEndSeconds)
    /\ jobs' = jobs \ {Job(r, proc[r].i, "ffprobe")}
    /\ engineLog' = Append(engineLog,
                           ProbeEv(r, proc[r].i, "probeOk", path, ProbedDuration(path)))
    /\ proc' = [proc EXCEPT ![r].pc = "loop", ![r].i = proc[r].i + 1,
                            ![r].videoDuration = ProbedDuration(path)]
    /\ UNCHANGED <<variant, dirs, files, uploaded, nuuid, nupload, nops, nproc, zipreq, cleanups, last, client>>

\* variant of PlanExecute that does not await the transform: the entry is
\* pushed and the loop goes on while ffmpeg runs
PlanExecuteNoAwait(r) ==
    LET path == CurFile(r).uploadPath
        a == EngineArgs(variant, ProbedDuration(path),
                        proc[r].trimStartSeconds, proc[r].trimEndSeconds)
        out == OutputPath(proc[r].sessionId, CurOutputFileName(r))
    IN
    /\ proc[r].pc = "probing"
    /\ ProbeSucceeds(path)
    /\ ~TooShort(variant, ProbedDuration(path),
                 proc[r].trimStartSeconds, proc[r].trimEndSeconds)
    /\ jobs' = (jobs \ {Job(r, proc[r].i, "ffprobe")}) \cup {Job(r, proc[r].i, "ffmpeg")}
    /\ engineLog' = engineLog \o
            <<ProbeEv(r, proc[r].i, "probeOk", path, ProbedDuration(path)),
              Ev(r, proc[r].i, "trimStart", path, out, a.ss, a.opt, a.val)>>
    /\ proc' = [proc EXCEPT ![r].pc = "loop", ![r].i = proc[r].i + 1,
                            ![r].videoDuration = ProbedDuration(path)]
    /\ UNCHANGED <<variant, dirs, files, uploaded, nuuid, nupload, nops, nproc, zipreq, cleanups, last, client>>

\* probe resolved and the window is feasible: ffmpeg is spawned and awaited
PlanExecute(r) ==
    LET path == CurFile(r).uploadPath
        a == EngineArgs(variant, ProbedDuration(path),
                        proc[r].trimStartSeconds, proc[r].trimEndSeconds)
        out == OutputPath(proc[r].sessionId, CurOutputFileName(r))
    IN
    /\ proc[r].pc = "probing"
    /\ ProbeSucceeds(path)
    /\ ~TooShort(variant, ProbedDuration(path),
                 proc[r].trimStartSeconds, proc[r].trimEndSeconds)
    /\ jobs' = (jobs \ {Job(r, proc[r].i, "ffprobe")}) \cup {Job(r, proc[r].i, "ffmpeg")}
    /\ engineLog' = engineLog \o
            <<ProbeEv(r, proc[r].i, "probeOk", path, ProbedDuration(path)),
              Ev(r, proc[r].i, "trimStart", path, out, a.ss, a.opt, a.val)>>
    /\ proc' = [proc EXCEPT ![r].pc = "executing",
                            ![r].videoDuration = ProbedDuration(path)]
    /\ UNCHANGED <<variant, dirs, files, uploaded, nuuid, nupload, nops, nproc, zipreq, cleanups, last, client>>

\* variant of CurTrim with one module-level "current transform" shared by all
\* requests
CurTrimShared(r) ==
    LET K == {k \in 1..Len(engineLog) : engineLog[k].ev = "trimStart"}
    IN engineLog[CHOOSE k \in K : \A j \in K : j <= k]

\* the transform that is running for the current file of r: the latest started
CurTrim(r) ==
    LET K == {k \in 1..Len(engineLog) :
                 /\ engineLog[k].req = r /\ engineLog[k].idx = proc[r].i
                 /\ engineLog[k].ev = "trimStart"}
    IN engineLog[CHOOSE k \in K : \A j \in K : j <= k]

Max(a, b) == IF a >= b THEN a ELSE b
Min(a, b) == IF a <= b THEN a ELSE b

\* the interval of the input's timeline a transform call selects
WindowStart(e) == e.ss
WindowEnd(e) == IF e.opt = "-to" THEN e.val ELSE e.ss + e.val

\* the engine's transform: fails on a missing input, an unsupported codec or
\* an output path it cannot create
EngineSucceeds(e) ==
    /\ e.input \in DOMAIN files
    /\ files[e.input].encodeOk
    /\ Parent(e.output) \in dirs
    /\ e.output \notin dirs

\* what the transform writes: the selected interval of the input
TrimmedContent(e) ==
    LET from == Max(WindowStart(e), 0)
        to == Min(WindowEnd(e), files[e.input].duration)
    IN MediaContent(to - from, TRUE, TRUE, [input |-> e.input, ss |-> from, to |-> to])

\* `/api/output/${sessionId}/${outputFileName}`
OutputUrl(sessionId, outputFileName) ==
    <<"/api/output/">> \o sessionId \o <<"/">> \o outputFileName

\* 'end': resolve(), then processedFiles.push({...}) and the next iteration
EngineOk(r) ==
    LET e == CurTrim(r) IN
    /\ proc[r].pc = "executing"
    /\ EngineSucceeds(e)
    /\ files' = WriteFile(files, e.output, TrimmedContent(e))
    /\ jobs' = jobs \ {Job(r, proc[r].i, "ffmpeg")}
    /\ engineLog' = Append(engineLog,
                           Ev(r, proc[r].i, "trimOk", e.input, e.output, e.ss, e.opt, e.val))
    /\ proc' = [proc EXCEPT
                  ![r].pc = "loop",
                  ![r].i = proc[r].i + 1,
                  ![r].processedFiles =
                      Append(proc[r].processedFiles,
                             [originalName |-> CurFile(r).originalName,
                              fileName |-> CurOutputFileName(r),
                              url |-> OutputUrl(proc[r].sessionId, CurOutputFileName(r))])]
    /\ UNCHANGED <<variant, dirs, uploaded, nuuid, nupload, nops, nproc, zipreq, cleanups, last, client>>

\* variant of EngineFail that starts the transform of the same file once more
EngineFailRetries(r) ==
    LET e == CurTrim(r) IN
    /\ proc[r].pc = "executing"
    /\ ~EngineSucceeds(e)
    /\ engineLog' = engineLog \o
            <<Ev(r, proc[r].i, "trimErr", e.input, e.output, e.ss, e.opt, e.val),
              Ev(r, proc[r].i, "trimStart", e.input, e.output, e.ss, e.opt, e.val)>>
    /\ UNCHANGED <<variant, dirs, files, uploaded, nuuid, nupload, nops, nproc, proc, jobs, zipreq, cleanups, last, client>>

\* variant of EngineFail that treats 'error' like 'end': the entry is pushed
EngineFailPush(r) ==
    LET e == CurTrim(r) IN
    /\ proc[r].pc = "executing"
    /\ ~EngineSucceeds(e)
    /\ jobs' = jobs \ {Job(r, proc[r].i, "ffmpeg")}
    /\ engineLog' = Append(engineLog,
                           Ev(r, proc[r].i, "trimErr", e.input, e.output, e.ss, e.opt, e.val))
    /\ proc' = [proc EXCEPT
                  ![r].pc = "loop",
                  ![r].i = proc[r].i + 1,
                  ![r].processedFiles =
                      Append(proc[r].processedFiles,
                             [originalName |-> CurFile(r).originalName,
                              fileName |-> CurOutputFileName(r),
                              url |-> OutputUrl(proc[r].sessionId, CurOutputFileName(r))])]
    /\ UNCHANGED <<variant, dirs, files, uploaded, nuuid, nupload, nops, nproc, zipreq, cleanups, last, client>>

\* 'error': reject(err) is not caught inside the loop: the outer catch answers 500
EngineFail(r) ==
    LET e == CurTrim(r) IN
    /\ proc[r].pc = "executing"
    /\ ~EngineSucceeds(e)
    /\ jobs' = jobs \ {Job(r, proc[r].i, "ffmpeg")}
    /\ engineLog' = Append(engineLog,
                           Ev(r, proc[r].i, "trimErr", e.input, e.output, e.ss, e.opt, e.val))
    /\ proc' = [proc EXCEPT ![r].pc = "done", ![r].status = 500]
    /\ UNCHANGED <<variant, dirs, files, uploaded, nuuid, nupload, nops, nproc, zipreq, cleanups, last, client>>

\* the client's next POST /api/process: a new invocation of the handler, with
\* fresh locals, after the previous one has answered
ProcessAgain(r) ==
    /\ proc[r].pc = "done"
    /\ nproc < MaxRepeats
    /\ nproc' = nproc + 1
    /\ proc' = [proc EXCEPT ![r] = IdleProc]
    /\ UNCHANGED <<variant, dirs, files, uploaded, nuuid, nupload, nops, jobs, engineLog, zipreq, cleanups, last, client>>

\* --------------------------------------------------------------- Create-zip
\* variant of ZipFileName that stamps the name with the time of the call
ZipFileNameStamped(sessionId) ==
    <<"trimmed_videos_">> \o sessionId \o <<"_", ToString(nops), ".zip">>

\* `trimmed_videos_${sessionId}.zip`
ZipFileName(sessionId) == <<"trimmed_videos_">> \o sessionId \o <<".zip">>
ZipPath(sessionId) == PathJoin(ZIP_DIR, ZipFileName(sessionId))
SessionDir(sessionId) == PathJoin(OUTPUT_DIR, sessionId)

ZipMissingId(z, sid) ==
    /\ zipreq[z].pc # "archiving"
    /\ (~sid.given \/ sid.v = <<>>)
    /\ zipreq' = [zipreq EXCEPT ![z] = [pc |-> "done", sessionId |-> <<>>, status |-> 400]]
    /\ UNCHANGED <<variant, dirs, files, uploaded, nuuid, nupload, nops, nproc, proc, jobs, engineLog, cleanups, last, client>>

\* variant of ZipNotFound that opens the archive file before the existence test
ZipNotFoundWrites(z, sid) ==
    /\ zipreq[z].pc # "archiving"
    /\ sid.given /\ sid.v # <<>>
    /\ ~PathExists(SessionDir(sid.v))
    /\ files' = WriteFile(files, ZipPath(sid.v), ZipContent(TRUE, {}))
    /\ zipreq' = [zipreq EXCEPT ![z] = [pc |-> "done", sessionId |-> sid.v, status |-> 404]]
    /\ UNCHANGED <<variant, dirs, uploaded, nuuid, nupload, nops, nproc, proc, jobs, engineLog, cleanups, last, client>>

ZipNotFound(z, sid) ==
    /\ zipreq[z].pc # "archiving"
    /\ sid.given /\ sid.v # <<>>
    /\ ~PathExists(SessionDir(sid.v))
    /\ zipreq' = [zipreq EXCEPT ![z] = [pc |-> "done", sessionId |-> sid.v, status |-> 404]]
    /\ UNCHANGED <<variant, dirs, files, uploaded, nuuid, nupload, nops, nproc, proc, jobs, engineLog, cleanups, last, client>>

\* fs.createWriteStream(zipPath) creates or truncates the archive file; the
\* archive is piped into it and the handler waits for 'close'
ZipStart(z, sid) ==
    /\ zipreq[z].pc # "archiving"
    /\ sid.given /\ sid.v # <<>>
    /\ PathExists(SessionDir(sid.v))
    /\ files' = WriteFile(files, ZipPath(sid.v), ZipContent(TRUE, {}))
    /\ zipreq' = [zipreq EXCEPT ![z] = [pc |-> "archiving", sessionId |-> sid.v, status |-> 0]]
    /\ UNCHANGED <<variant, dirs, uploaded, nuuid, nupload, nops, nproc, proc, jobs, engineLog, cleanups, last, client>>

\* variant of DirEntries for archive.directory(sessionDir): the entries keep the
\* directory's own name as a prefix
DirEntriesPrefixed(dir) ==
    {[name |-> SubSeq(q, Len(dir), Len(q)), content |-> files[q]] :
        q \in {x \in DOMAIN files : IsPrefix(dir, x) /\ x # dir}}

\* archive.directory(sessionDir, false): every file below sessionDir, stored
\* under its path relative to sessionDir
DirEntries(dir) ==
    {[name |-> SubSeq(q, Len(dir) + 1, Len(q)), content |-> files[q]] :
        q \in {x \in DOMAIN files : IsPrefix(dir, x) /\ x # dir}}

\* variant of ZipClose that answers when archive.finalize() returns, while the
\* output stream is still being written
ZipCloseAtFinalize(z) ==
    LET sid == zipreq[z].sessionId IN
    /\ zipreq[z].pc = "archiving"
    /\ SessionDir(sid) \in dirs
    /\ files' = WriteFile(files, ZipPath(sid), ZipContent(TRUE, DirEntries(SessionDir(sid))))
    /\ zipreq' = [zipreq EXCEPT ![z].pc = "done", ![z].status = 200]
    /\ UNCHANGED <<variant, dirs, uploaded, nuuid, nupload, nops, nproc, proc, jobs, engineLog, cleanups, last, client>>

\* output 'close': the archive is complete, res.json({zipUrl, fileName})
ZipClose(z) ==
    LET sid == zipreq[z].sessionId IN
    /\ zipreq[z].pc = "archiving"
    /\ SessionDir(sid) \in dirs
    /\ files' = WriteFile(files, ZipPath(sid), ZipContent(FALSE, DirEntries(SessionDir(sid))))
    /\ zipreq' = [zipreq EXCEPT ![z].pc = "done", ![z].status = 200]
    /\ UNCHANGED <<variant, dirs, uploaded, nuuid, nupload, nops, nproc, proc, jobs, engineLog, cleanups, last, client>>

\* archive 'error' (the directory cannot be read): reject(err) of a promise the
\* handler returns without awaiting; its catch does not run and nothing is sent
ZipError(z) ==
    LET sid == zipreq[z].sessionId IN
    /\ zipreq[z].pc = "archiving"
    /\ SessionDir(sid) \notin dirs
    /\ zipreq' = [zipreq EXCEPT ![z].pc = "rejected"]
    /\ UNCHANGED <<variant, dirs, files, uploaded, nuuid, nupload, nops, nproc, proc, jobs, engineLog, cleanups, last, client>>

\* ------------------------------------------------------------------ Cleanup
\* variant of FsRemoveThrows: a removal that fails on a missing path (fs.rmdir)
FsRmdirThrows(p) == ~PathExists(p)

\* fs.remove resolves whether or not the path exists
FsRemoveThrows(p) == FALSE

\* fs.remove(sessionDir), then res.json({message: 'Cleaned up'}); catch: 500

Cleanup(sessionId) ==
    LET sessionDir == SessionDir(sessionId) IN
    /\ nops < MaxOps
    /\ nops' = nops + 1
    /\ IF FsRemoveThrows(sessionDir)
       THEN /\ last' = Resp("cleanup", sessionId, <<>>, 500)
            /\ UNCHANGED <<dirs, files>>
       ELSE /\ dirs' = RemoveDirs(dirs, sessionDir)
            /\ files' = RemoveFiles(files, sessionDir)
            /\ last' = Resp("cleanup", sessionId, <<>>, 200)
    /\ cleanups' = [cleanups EXCEPT ![sessionId] = cleanups[sessionId] + 1]
    /\ UNCHANGED <<variant, uploaded, nuuid, nupload, nproc, proc, jobs, engineLog, zipreq, client>>

\* ----------------------------------------------------------------- Retrieve
Size(content) ==
    IF content.kind = "zip" THEN 1 + Cardinality(content.entries) ELSE content.duration

\* parseInt(parts[0], 10) after range.replace(/bytes=/, "").split("-")
StartIsNaN(range) == range.v.unit = "items=" \/ range.v.a.k # "num"
\* parts[1] ? parseInt(parts[1], 10) : fileSize - 1
EndIsNaN(range) == range.v.b.k = "junk"
\* variant of RangeEnd whose default end is the file size
RangeEndAtSize(range, fileSize) == IF range.v.b.k = "num" THEN range.v.b.v ELSE fileSize
RangeEnd(range, fileSize) == IF range.v.b.k = "num" THEN range.v.b.v ELSE fileSize - 1

OutputNotFound(sessionId, filename, range) ==
    LET filePath == PathJoin(SessionDir(sessionId), filename) IN
    /\ nops < MaxOps
    /\ nops' = nops + 1
    /\ ~PathExists(filePath)
    /\ last' = [Resp("output", sessionId, filename, 404) EXCEPT !.range = range]
    /\ UNCHANGED <<variant, dirs, files, uploaded, nuuid, nupload, nproc, proc, jobs, engineLog, zipreq, cleanups, client>>

\* no Range header: status 200, Content-Length fileSize, the whole file
OutputFull(sessionId, filename, range) ==
    LET filePath == PathJoin(SessionDir(sessionId), filename) IN
    /\ nops < MaxOps
    /\ nops' = nops + 1
    /\ filePath \in DOMAIN files
    /\ ~range.given
    /\ last' = [Resp("output", sessionId, filename, 200) EXCEPT
                  !.range = range,
                  !.total = Size(files[filePath]),
                  !.length = Size(files[filePath]),
                  !.sent = Size(files[filePath])]
    /\ UNCHANGED <<variant, dirs, files, uploaded, nuuid, nupload, nproc, proc, jobs, engineLog, zipreq, cleanups, client>>

\* fs.createReadStream(filePath, {start, end}) throws on a start or end that is
\* not a non-negative integer and on start > end: the handler's catch answers 500
OutputRangeThrows(sessionId, filename, range) ==
    LET filePath == PathJoin(SessionDir(sessionId), filename)
        fileSize == Size(files[filePath])
    IN
    /\ nops < MaxOps
    /\ nops' = nops + 1
    /\ filePath \in DOMAIN files
    /\ range.given
    /\ \/ StartIsNaN(range)
       \/ EndIsNaN(range)
       \/ range.v.a.v > RangeEnd(range, fileSize)
    /\ last' = [Resp("output", sessionId, filename, 500) EXCEPT !.range = range]
    /\ UNCHANGED <<variant, dirs, files, uploaded, nuuid, nupload, nproc, proc, jobs, engineLog, zipreq, cleanups, client>>

\* status 206 with Content-Range start-end/fileSize and Content-Length
\* end - start + 1; the stream delivers what the file holds in that interval
OutputPartial(sessionId, filename, range) ==
    LET filePath == PathJoin(SessionDir(sessionId), filename)
        fileSize == Size(files[filePath])
        start == range.v.a.v
        end == RangeEnd(range, fileSize)
    IN
    /\ nops < MaxOps
    /\ nops' = nops + 1
    /\ filePath \in DOMAIN files
    /\ range.given
    /\ ~StartIsNaN(range) /\ ~EndIsNaN(range) /\ start <= end
    /\ last' = [Resp("output", sessionId, filename, 206) EXCEPT
                  !.range = range,
                  !.start = start, !.end = end, !.total = fileSize,
                  !.length = (end - start) + 1,
                  !.sent = Max(0, Min(end, fileSize - 1) - start + 1)]
    /\ UNCHANGED <<variant, dirs, files, uploaded, nuuid, nupload, nproc, proc, jobs, engineLog, zipreq, cleanups, client>>

RetrieveOutput(sessionId, filename, range) ==
    \/ OutputNotFound(sessionId, filename, range)
    \/ OutputFull(sessionId, filename, range)
    \/ OutputRangeThrows(sessionId, filename, range)
    \/ OutputPartial(sessionId, filename, range)

\* variant of ZipFileNotFound that pipes the missing file: 200 and no bytes
ZipFileMissingPiped(filename) ==
    /\ nops < MaxOps
    /\ nops' = nops + 1
    /\ ~PathExists(PathJoin(ZIP_DIR, filename))
    /\ last' = Resp("zips", <<>>, filename, 200)
    /\ UNCHANGED <<variant, dirs, files, uploaded, nuuid, nupload, nproc, proc, jobs, engineLog, zipreq, cleanups, client>>

ZipFileNotFound(filename) ==
    /\ nops < MaxOps
    /\ nops' = nops + 1
    /\ ~PathExists(PathJoin(ZIP_DIR, filename))
    /\ last' = Resp("zips", <<>>, filename, 404)
    /\ UNCHANGED <<variant, dirs, files, uploaded, nuuid, nupload, nproc, proc, jobs, engineLog, zipreq, cleanups, client>>

\* the archive file is streamed whole, whatever it holds at that moment
ZipFileServed(filename) ==
    LET filePath == PathJoin(ZIP_DIR, filename) IN
    /\ nops < MaxOps
    /\ nops' = nops + 1
    /\ filePath \in DOMAIN files
    /\ last' = [Resp("zips", <<>>, filename, 200) EXCEPT
                  !.total = Size(files[filePath]), !.sent = Size(files[filePath])]
    /\ UNCHANGED <<variant, dirs, files, uploaded, nuuid, nupload, nproc, proc, jobs, engineLog, zipreq, cleanups, client>>

RetrieveZip(filename) == ZipFileNotFound(filename) \/ ZipFileServed(filename)

\* ------------------------------------------------------------------- Client
\* App: the state of the component, and where handleUploadAndProcess stands.
\* sent lists the requests the flow has sent; uploadResponse holds
\* uploadResponse.data
NoUrl == <<>>
IdleClient ==
    [pc |-> "idle", files |-> <<>>, trimStart |-> 0, trimEnd |-> 0,
     outputBaseName |-> <<>>, isProcessing |-> FALSE, processedFiles |-> <<>>,
     zipUrl |-> NoUrl, uploadResponse |-> [sessionId |-> <<>>, files |-> <<>>],
     sent |-> <<>>, alerts |-> 0]

\* `/api/zips/${zipFileName}`
ZipUrl(zipFileName) == <<"/api/zips/">> \o zipFileName

\* the button is pressed with a non-empty queue: the results are reset and
\* POST /api/upload is sent
HandleUploadAndProcess(queue, ts, te, bn) ==
    /\ client.pc = "idle"
    /\ ~client.isProcessing
    /\ Len(queue) > 0
    /\ client' = [client EXCEPT !.pc = "upload", !.files = queue,
                                !.trimStart = ts, !.trimEnd = te,
                                !.outputBaseName = bn, !.isProcessing = TRUE,
                                !.processedFiles = <<>>, !.zipUrl = NoUrl,
                                !.sent = <<"upload">>]
    /\ UNCHANGED <<variant, dirs, files, uploaded, nuuid, nupload, nops, nproc, proc, jobs, engineLog, zipreq, cleanups, last>>

\* catch (error) { alert(...) } finally { setIsProcessing(false) }
Caught == [client EXCEPT !.pc = "failed", !.isProcessing = FALSE, !.alerts = @ + 1]

\* await axios.post('/api/upload') settles: axios rejects on a status outside
\* 2xx; otherwise POST /api/process is sent
UploadResponse ==
    /\ client.pc = "upload"
    /\ last.op = "upload"
    /\ client' =
         IF last.status = 200
         THEN [client EXCEPT
                 !.pc = "process",
                 !.uploadResponse = CHOOSE u \in uploaded : u.sessionId = last.sid,
                 !.sent = Append(@, "process")]
         ELSE Caught
    /\ UNCHANGED <<variant, dirs, files, uploaded, nuuid, nupload, nops, nproc, proc, jobs, engineLog, zipreq, cleanups, last>>

\* the body of the client's Process request
ClientBody ==
    Body(Given(client.uploadResponse.sessionId), Given(client.uploadResponse.files),
         Given(Num(client.trimStart)), Given(Num(client.trimEnd)),
         Given(Trim(client.outputBaseName)))

\* variant of ProcessResponse for a client that does not reject on the status
ProcessResponseAnyStatus(r) ==
    /\ client.pc = "process"
    /\ proc[r].pc = "done"
    /\ proc[r].body = ClientBody
    /\ client' = [client EXCEPT !.pc = "zip",
                                !.processedFiles = proc[r].resFiles,
                                !.sent = Append(@, "zip")]
    /\ UNCHANGED <<variant, dirs, files, uploaded, nuuid, nupload, nops, nproc, proc, jobs, engineLog, zipreq, cleanups, last>>

\* await axios.post('/api/process') settles: the results are shown and POST
\* /api/create-zip is sent, or the catch runs
ProcessResponse(r) ==
    /\ client.pc = "process"
    /\ proc[r].pc = "done"
    /\ proc[r].body = ClientBody
    /\ client' =
         IF proc[r].status = 200
         THEN [client EXCEPT !.pc = "zip",
                             !.processedFiles = proc[r].resFiles,
                             !.sent = Append(@, "zip")]
         ELSE Caught
    /\ UNCHANGED <<variant, dirs, files, uploaded, nuuid, nupload, nops, nproc, proc, jobs, engineLog, zipreq, cleanups, last>>

\* await axios.post('/api/create-zip') settles: the archive URL is shown
ZipResponse(z) ==
    /\ client.pc = "zip"
    /\ zipreq[z].pc = "done"
    /\ zipreq[z].sessionId = client.uploadResponse.sessionId
    /\ client' =
         IF zipreq[z].status = 200
         THEN [client EXCEPT !.pc = "shown", !.isProcessing = FALSE,
                             !.zipUrl = ZipUrl(ZipFileName(zipreq[z].sessionId))]
         ELSE Caught
    /\ UNCHANGED <<variant, dirs, files, uploaded, nuuid, nupload, nops, nproc, proc, jobs, engineLog, zipreq, cleanups, last>>

\* ------------------------------------------------------------ specification
ZipReqs == {"z1"}
IdleZip == [pc |-> "idle", sessionId |-> <<>>, status |-> 0]

Init ==
    /\ variant \in Variants
    /\ dirs = {UPLOAD_DIR, OUTPUT_DIR, ZIP_DIR}
    /\ files = [q \in {} |-> MediaContent(0, FALSE, FALSE, NoOrigin)]
    /\ uploaded = {}
    /\ nuuid = 0
    /\ nupload = 0
    /\ nops = 0
    /\ nproc = 0
    /\ proc = [r \in Reqs |-> IdleProc]
    /\ jobs = {}
    /\ engineLog = <<>>
    /\ zipreq = [z \in ZipReqs |-> IdleZip]
    /\ cleanups = [s \in SessionIds \cup {UnknownId} |-> 0]
    /\ last = Resp("none", <<>>, <<>>, 0)
    /\ client = IdleClient

\* what a client puts into a Process request
\* session identifiers are unguessable: a client names one an Upload returned,
\* or one that never existed
ClientIds == {u.sessionId : u \in uploaded} \cup {UnknownId}
SessionInputs == {Absent(<<>>)} \cup {Given(s) : s \in ClientIds}
FileListInputs ==
    {Absent(<<>>), Given(<<>>)}
    \cup {Given(u.files) : u \in uploaded}
    \cup {Given(InsertAt(u.files, 1, StaleFile)) : u \in uploaded}
TrimInputs == {Absent(NotNum), Given(NotNum)} \cup {Given(Num(n)) : n \in -1..MaxCut}
EndInputs == {Absent(NotNum)} \cup {Given(Num(n)) : n \in 1..MaxCut}
BaseNameInputs == {Absent(<<>>), Given(<<" ", "c", " ">>)}

ProcessReceiveFrom(r, Sids, Lists, Starts, Ends, Names) ==
    /\ proc[r].pc = "idle"
    /\ \E sid \in Sids, fl \in Lists, ts \in Starts, te \in Ends, bn \in Names :
         ProcessBadRequest(r, Body(sid, fl, ts, te, bn))
         \/ ProcessAccept(r, Body(sid, fl, ts, te, bn))

ProcessReceive(r) ==
    ProcessReceiveFrom(r, SessionInputs, FileListInputs, TrimInputs, EndInputs,
                       BaseNameInputs)

\* the steps of an accepted Process request
ProcessStep(r) ==
    \/ LoopDone(r)
    \/ LoopSkipMissing(r)
    \/ LoopProbe(r)
    \/ ProbeFail(r)
    \/ PlanTooShort(r)
    \/ PlanExecute(r)
    \/ EngineOk(r)
    \/ EngineFail(r)

\* the processing pipeline: uploads and Process requests
Next ==
    \/ \E batch \in Batches : Upload(batch)
    \/ \E r \in Reqs : ProcessReceive(r) \/ ProcessStep(r)

Spec == Init /\ [][Next]_vars

\* the session store: one build, uploads, Process requests with plain
\* parameters, archives, retrieval and cleanup
StoreBatches == {<<>>, <<Quicktime>>, <<Good(1), Corrupt>>}
StoreFileLists ==
    {Given(u.files) : u \in uploaded} \cup {Given(<<StaleFile>>)}
StoreTrims == {Given(Num(0)), Given(Num(1))}
NameInputs == {<<"trimmed", "_", "1", ".mp4">>, <<"nosuch", ".mp4">>}
RangeInputs ==
    {NoRange,
     Given(Range("bytes=", NumPart(0), EmptyPart)),
     Given(Range("bytes=", EmptyPart, NumPart(1)))}

InitStore == Init /\ variant = "reencode"

\* the store under uploads, Process requests, archives and cleanup
NextCleanup ==
    \/ \E batch \in StoreBatches : Upload(batch)
    \/ \E r \in Reqs :
        \/ ProcessReceiveFrom(r, SessionInputs, StoreFileLists, StoreTrims,
                              {Absent(NotNum)}, {Absent(<<>>)})
        \/ ProcessStep(r)
    \/ \E z \in ZipReqs :
        \/ \E sid \in SessionInputs :
              ZipMissingId(z, sid) \/ ZipNotFound(z, sid) \/ ZipStart(z, sid)
        \/ ZipClose(z)
        \/ ZipError(z)
    \/ \E sessionId \in ClientIds : Cleanup(sessionId)

SpecCleanup == InitStore /\ [][NextCleanup]_vars

\* the same, with retrieval of output files and archives
NextStore ==
    \/ NextCleanup
    \/ \E sessionId \in ClientIds :
        \/ \E filename \in NameInputs, range \in RangeInputs :
              RetrieveOutput(sessionId, filename, range)
        \/ RetrieveZip(ZipFileName(sessionId))

SpecStore == InitStore /\ [][NextStore]_vars

\* the archive of a session that is processed more than once: uploads of
\* sound media, repeated Process requests that name an uploaded session and its
\* files, archives of uploaded sessions.  With these inputs no probe and no
\* transform fails and no upload path is missing.
ArchiveBatches == {<<Good(1), Good(MaxDur)>>}

NextArchive ==
    \/ \E batch \in ArchiveBatches : UploadAccepted(batch)
    \/ \E r \in Reqs :
        \/ \E u \in uploaded, w \in uploaded, ts \in StoreTrims :
              ProcessAccept(r, Body(Given(u.sessionId), Given(w.files), ts,
                                    Absent(NotNum), Absent(<<>>)))
        \/ LoopDone(r)
        \/ LoopProbe(r)
        \/ PlanTooShort(r)
        \/ PlanExecute(r)
        \/ EngineOk(r)
        \/ ProcessAgain(r)
    \/ \E z \in ZipReqs :
        \/ \E u \in uploaded : ZipStart(z, Given(u.sessionId))
        \/ ZipClose(z)

SpecArchive == InitStore /\ [][NextArchive]_vars

\* the archive of a session that is archived, retrieved once announced,
\* processed again and archived again
NextRearchive ==
    \/ \E batch \in ArchiveBatches : UploadAccepted(batch)
    \/ \E r \in Reqs :
        \/ \E u \in uploaded, ts \in StoreTrims :
              ProcessAccept(r, Body(Given(u.sessionId), Given(u.files), ts,
                                    Absent(NotNum), Absent(<<>>)))
        \/ LoopDone(r)
        \/ LoopProbe(r)
        \/ PlanTooShort(r)
        \/ PlanExecute(r)
        \/ EngineOk(r)
        \/ ProcessAgain(r)
    \/ \E z \in ZipReqs :
        \/ \E u \in uploaded : ZipStart(z, Given(u.sessionId))
        \/ ZipClose(z)
        \/ zipreq[z].status = 200 /\ RetrieveZip(ZipFileName(zipreq[z].sessionId))

SpecRearchive == InitStore /\ [][NextRearchive]_vars

\* retrieval of an output file: one sound file is uploaded and processed
\* uncut, and output files are requested with every form of Range header
ServeBatches == {<<Good(MaxDur)>>}
ServeParts == {EmptyPart, JunkPart} \cup {NumPart(n) : n \in 0..MaxDur}
ServeRanges ==
    {NoRange}
    \cup {Given(Range("bytes=", a, b)) : a \in ServeParts, b \in ServeParts}
    \cup {Given(Range("items=", NumPart(0), NumPart(0)))}

NextServe ==
    \/ \E batch \in ServeBatches : UploadAccepted(batch)
    \/ \E r \in Reqs :
        \/ \E u \in uploaded :
              ProcessAccept(r, Body(Given(u.sessionId), Given(u.files), Absent(NotNum),
                                    Absent(NotNum), Absent(<<>>)))
        \/ LoopDone(r)
        \/ LoopProbe(r)
        \/ PlanExecute(r)
        \/ EngineOk(r)
    \/ \E u \in uploaded, range \in ServeRanges :
          RetrieveOutput(u.sessionId, <<"trimmed", "_", "1", ".mp4">>, range)

SpecServe == InitStore /\ [][NextServe]_vars

\* retrieval from a session that is processed, archived and cleaned up: one
\* sound file is uploaded and processed uncut
NextFetch ==
    \/ \E batch \in ServeBatches : UploadAccepted(batch)
    \/ \E r \in Reqs :
        \/ \E u \in uploaded :
              ProcessAccept(r, Body(Given(u.sessionId), Given(u.files), Absent(NotNum),
                                    Absent(NotNum), Absent(<<>>)))
        \/ LoopDone(r)
        \/ LoopProbe(r)
        \/ PlanExecute(r)
        \/ EngineOk(r)
        \/ EngineFail(r)
    \/ \E z \in ZipReqs :
        \/ \E u \in uploaded :
              ZipNotFound(z, Given(u.sessionId)) \/ ZipStart(z, Given(u.sessionId))
        \/ ZipClose(z)
        \/ ZipError(z)
    \/ \E u \in uploaded :
        \/ Cleanup(u.sessionId)
        \/ \E filename \in NameInputs, range \in RangeInputs :
              RetrieveOutput(u.sessionId, filename, range)
        \/ RetrieveZip(ZipFileName(u.sessionId))

SpecFetch == InitStore /\ [][NextFetch]_vars

\* the names of output files: sound files are uploaded, and Process requests
\* carry every form of session identifier and output base name
TraversalId == <<"..", "/", "zips">>
NameSessionInputs == {Given(s) : s \in ClientIds \cup {TraversalId}}
NameBaseInputs ==
    {Absent(<<>>), Given(<<>>), Given(<<" ", " ">>), Given(<<" ", "c", " ", "d", " ">>),
     Given(<<"c">>), Given(<<"..", "/", "..", "/", "zips", "/", "x">>)}

NextNames ==
    \/ \E batch \in ArchiveBatches : UploadAccepted(batch)
    \/ \E r \in Reqs :
        \/ \E sid \in NameSessionInputs, u \in uploaded, bn \in NameBaseInputs :
              ProcessAccept(r, Body(sid, Given(u.files), Absent(NotNum), Absent(NotNum), bn))
        \/ LoopDone(r)
        \/ LoopProbe(r)
        \/ PlanExecute(r)
        \/ EngineOk(r)
        \/ EngineFail(r)

SpecNames == InitStore /\ [][NextNames]_vars

\* two Process requests in flight at once, each on its own session: the state
\* after two accepted uploads of sound files, then one request per session
PairReqs == {"p1", "p2"}
PairBatch == <<Good(1), Good(MaxDur)>>
PairUpload(n) ==
    [sessionId |-> SessionId(n),
     files |-> [k \in 1..Len(PairBatch) |->
                  [originalName |-> PairBatch[k].originalname,
                   uploadPath |-> StoredPath(Len(PairBatch) * (n - 1) + k, PairBatch[k])]]]
PairSessions == {PairUpload(1), PairUpload(2)}
PairOwner(r) == IF r = "p1" THEN PairUpload(1) ELSE PairUpload(2)

InitPair ==
    /\ variant \in Variants
    /\ dirs = {UPLOAD_DIR, OUTPUT_DIR, ZIP_DIR}
                \cup {PathJoin(OUTPUT_DIR, u.sessionId) : u \in PairSessions}
    /\ files = [q \in {u.files[k].uploadPath : u \in PairSessions, k \in 1..Len(PairBatch)} |->
                  PairBatch[CHOOSE k \in 1..Len(PairBatch) :
                               \E u \in PairSessions : u.files[k].uploadPath = q].media]
    /\ uploaded = PairSessions
    /\ nuuid = Len(PairBatch) * Cardinality(PairSessions)
    /\ nupload = Cardinality(PairSessions)
    /\ nops = 0
    /\ nproc = 0
    /\ proc = [r \in PairReqs |-> IdleProc]
    /\ jobs = {}
    /\ engineLog = <<>>
    /\ zipreq = [z \in ZipReqs |-> IdleZip]
    /\ cleanups = [s \in SessionIds \cup {UnknownId} |-> 0]
    /\ last = Resp("upload", PairUpload(Cardinality(PairSessions)).sessionId, <<>>, 200)
    /\ client = IdleClient

NextPair ==
    \E r \in PairReqs :
        \/ \E ts \in StoreTrims :
              ProcessAccept(r, Body(Given(PairOwner(r).sessionId), Given(PairOwner(r).files),
                                    ts, Absent(NotNum), Absent(<<>>)))
        \/ LoopDone(r)
        \/ LoopProbe(r)
        \/ PlanTooShort(r)
        \/ PlanExecute(r)
        \/ EngineOk(r)

SpecPair == InitPair /\ [][NextPair]_vars

\* planning over long times: one sound file of any representable duration is
\* uploaded and processed, by either build, with any representable cuts
LongTimes == {t \in 0..2^(MantissaBits + 1) : RoundFloat(t) = t}
WindowBatches == {<<Good(d)>> : d \in LongTimes}
WindowTrims == {Given(Num(t)) : t \in LongTimes}

NextWindow ==
    \/ \E batch \in WindowBatches : UploadAccepted(batch)
    \/ \E r \in Reqs :
        \/ \E u \in uploaded, ts \in WindowTrims, te \in WindowTrims :
              ProcessAccept(r, Body(Given(u.sessionId), Given(u.files), ts, te,
                                    Absent(<<>>)))
        \/ LoopDone(r)
        \/ LoopProbe(r)
        \/ PlanTooShort(r)
        \/ PlanExecute(r)
        \/ EngineOk(r)

SpecWindow == Init /\ [][NextWindow]_vars

\* the pipeline under the event loop's scheduling: a handler that can continue
\* (its awaited promise is settled, or the engine can signal 'end' or 'error')
\* does continue
LiveBatches ==
    {<<Good(1), Good(MaxDur)>>, <<Good(MaxDur), BadCodec(MaxDur), Good(1)>>,
     <<Good(MaxDur), Corrupt>>}
LiveFileLists ==
    {Given(u.files) : u \in uploaded}
    \cup {Given(InsertAt(u.files, 1, StaleFile)) : u \in uploaded}

NextLive ==
    \/ \E batch \in LiveBatches : UploadAccepted(batch)
    \/ \E r \in Reqs :
        \/ \E u \in uploaded, fl \in LiveFileLists, ts \in StoreTrims :
              ProcessAccept(r, Body(Given(u.sessionId), fl, ts, Absent(NotNum),
                                    Absent(<<>>)))
        \/ ProcessStep(r)

SpecLive == Init /\ [][NextLive]_vars /\ \A r \in Reqs : WF_vars(ProcessStep(r))

\* the intake of uploads: every batch is uploaded, and Process requests
\* without cuts and base name follow
NextIntake ==
    \/ \E batch \in Batches : Upload(batch)
    \/ \E r \in Reqs :
        \/ ProcessReceiveFrom(r, SessionInputs, FileListInputs, {Absent(NotNum)},
                              {Absent(NotNum)}, {Absent(<<>>)})
        \/ LoopDone(r)
        \/ LoopSkipMissing(r)
        \/ LoopProbe(r)
        \/ ProbeFail(r)
        \/ PlanExecute(r)
        \/ EngineOk(r)
        \/ EngineFail(r)

SpecIntake == Init /\ [][NextIntake]_vars

\* the browser client and the server: the client runs its flow once, and the
\* server receives exactly the requests the client has sent
ClientQueues == Batches \ {<<>>}
ClientCuts == 0..MaxCut
ClientNames == {<<>>, <<" ", "c", " ">>}

NextClient ==
    \/ \E queue \in ClientQueues, ts \in ClientCuts, te \in ClientCuts, bn \in ClientNames :
          HandleUploadAndProcess(queue, ts, te, bn)
    \/ /\ client.pc = "upload" /\ last.op = "none"
       /\ UploadRejected(client.files) \/ UploadAccepted(client.files)
    \/ UploadResponse
    \/ \E r \in Reqs :
        \/ client.pc = "process" /\ ProcessAccept(r, ClientBody)
        \/ LoopDone(r)
        \/ LoopProbe(r)
        \/ ProbeFail(r)
        \/ PlanTooShort(r)
        \/ PlanExecute(r)
        \/ EngineOk(r)
        \/ EngineFail(r)
        \/ ProcessResponse(r)
    \/ \E z \in ZipReqs :
        \/ /\ client.pc = "zip" /\ zipreq[z].pc = "idle"
           /\ ZipStart(z, Given(client.uploadResponse.sessionId))
        \/ ZipClose(z)
        \/ ZipResponse(z)

SpecClient == Init /\ [][NextClient]_vars

\* a Process request that is sent again: after an upload, request p1 is
\* served, and once it has answered request p2 arrives with the same body
InitRepeat ==
    /\ variant \in Variants
    /\ dirs = {UPLOAD_DIR, OUTPUT_DIR, ZIP_DIR}
    /\ files = [q \in {} |-> MediaContent(0, FALSE, FALSE, NoOrigin)]
    /\ uploaded = {}
    /\ nuuid = 0
    /\ nupload = 0
    /\ nops = 0
    /\ nproc = 0
    /\ proc = [r \in PairReqs |-> IdleProc]
    /\ jobs = {}
    /\ engineLog = <<>>
    /\ zipreq = [z \in ZipReqs |-> IdleZip]
    /\ cleanups = [s \in SessionIds \cup {UnknownId} |-> 0]
    /\ last = Resp("none", <<>>, <<>>, 0)
    /\ client = IdleClient

NextRepeat ==
    \/ \E batch \in LiveBatches : UploadAccepted(batch)
    \/ \E u \in uploaded, ts \in StoreTrims :
          ProcessAccept("p1", Body(Given(u.sessionId), Given(u.files), ts,
                                   Absent(NotNum), Absent(<<>>)))
    \/ proc["p1"].pc = "done" /\ ProcessAccept("p2", proc["p1"].body)
    \/ \E r \in PairReqs :
        \/ LoopDone(r)
        \/ LoopProbe(r)
        \/ ProbeFail(r)
        \/ PlanTooShort(r)
        \/ PlanExecute(r)
        \/ EngineOk(r)
        \/ EngineFail(r)

SpecRepeat == InitRepeat /\ [][NextRepeat]_vars

\* ------------------------------------------------------------------ claims
LogIdx == 1..Len(engineLog)
EventsOf(r) == {k \in LogIdx : engineLog[k].req = r}
Finished(r) == proc[r].pc = "done"
StartCut(r) == proc[r].trimStartSeconds
EndCut(r) == proc[r].trimEndSeconds
\* the input positions whose transform signalled 'end', in the order of the signals
OkIdx(r) ==
    LET ok == SelectSeq(engineLog, LAMBDA e : e.req = r /\ e.ev = "trimOk")
    IN [k \in 1..Len(ok) |-> ok[k].idx]

\* C1: a probe or engine failure of one file never fails the request: once a
\* request that met such a failure has ended, it has answered 200 and every
\* file after the failed one whose upload path exists was probed.
C1_FailureContained ==
    \A r \in Reqs :
        \A k \in EventsOf(r) :
            (engineLog[k].ev \in {"probeErr", "trimErr"} /\ Finished(r)) =>
                /\ proc[r].status = 200
                /\ \A j \in (engineLog[k].idx + 1)..(Len(proc[r].files) - 1) :
                       PathExists(proc[r].files[j + 1].uploadPath) =>
                           \E m \in EventsOf(r) :
                               engineLog[m].ev = "probeStart" /\ engineLog[m].idx = j

NameOf(baseName, i, file) ==
    baseName \o <<"_", ToString(i + 1)>>
    \o (IF ExtName(file.originalName) # <<>> THEN ExtName(file.originalName) ELSE <<".mp4">>)
NumberOf(r, entry) == entry.fileName[Len(proc[r].baseName) + 2]
C3_PositionalNames ==
    \A r \in Reqs :
        LET pf == proc[r].processedFiles
            ok == OkIdx(r)
        IN /\ Len(pf) = Len(ok)
           /\ \A k \in 1..Len(pf) :
                /\ pf[k].fileName = NameOf(proc[r].baseName, ok[k], proc[r].files[ok[k] + 1])
                /\ pf[k].originalName = proc[r].files[ok[k] + 1].originalName
           /\ \A k1, k2 \in 1..Len(pf) :
                k1 # k2 => NumberOf(r, pf[k1]) # NumberOf(r, pf[k2])
           /\ proc[r].status = 200 => proc[r].resFiles = pf

\* a 200 response with two entries, numbered 1 and 3: position 2 was skipped
C3_Witness ==
    \E r \in Reqs :
        /\ proc[r].status = 200
        /\ Len(proc[r].resFiles) = 2
        /\ NumberOf(r, proc[r].resFiles[1]) = "1"
        /\ NumberOf(r, proc[r].resFiles[2]) = "3"

\* C4: the result list is a subsequence of the input list (strictly increasing
\* positions), no longer than it, with one entry per 'end' signal of the engine
\* and none for any other file.
C4_ResultSubsequence ==
    \A r \in Reqs :
        LET pf == proc[r].processedFiles
            ok == OkIdx(r)
        IN /\ Len(proc[r].resFiles) <= Len(proc[r].files)
           /\ Len(pf) <= Len(proc[r].files)
           /\ Len(pf) = Len(ok)
           /\ \A k \in 1..Len(ok) :
                /\ ok[k] \in 0..(Len(proc[r].files) - 1)
                /\ k > 1 => ok[k - 1] < ok[k]
                /\ k <= Len(pf) => pf[k].originalName = proc[r].files[ok[k] + 1].originalName
           /\ proc[r].resFiles \in {<<>>, pf}
           /\ proc[r].resFiles # <<>> => proc[r].status = 200

\* a 200 response that lists some but not all of the input files
C4_Witness ==
    \E r \in Reqs :
        /\ proc[r].status = 200
        /\ Len(proc[r].resFiles) > 0
        /\ Len(proc[r].resFiles) < Len(proc[r].files)

\* C5: an accepted request in which no file succeeded ends with status 200 and
\* an empty result list.
C5_EmptyBatchSucceeds ==
    \A r \in Reqs :
        (Finished(r) /\ proc[r].status # 400 /\ Len(OkIdx(r)) = 0) =>
            (proc[r].status = 200 /\ proc[r].resFiles = <<>>)

\* C6: at a file whose upload path does not exist the request only moves on to
\* the next position: no probe, no engine call, no result entry, no file written.
C6_MissingUploadSkipped ==
    [][\A r \in Reqs :
          (/\ proc[r].pc = "loop"
           /\ proc[r].i < Len(proc[r].files)
           /\ ~PathExists(proc[r].files[proc[r].i + 1].uploadPath)
           /\ proc'[r] # proc[r])
          => /\ proc'[r] = [proc[r] EXCEPT !.i = proc[r].i + 1]
             /\ engineLog' = engineLog
             /\ jobs' = jobs
             /\ files' = files]_vars

\* a request that passed a missing upload path and then trimmed a later file
C6_Witness ==
    \E r \in Reqs :
        \E j \in 0..(proc[r].i - 1) :
            /\ ~PathExists(proc[r].files[j + 1].uploadPath)
            /\ ~\E k \in EventsOf(r) : engineLog[k].idx = j
            /\ \E k \in EventsOf(r) : engineLog[k].ev = "trimOk" /\ engineLog[k].idx > j

\* C7: a request has at most one engine process in flight; its probes start in
\* strictly increasing input position, and whenever it starts a probe every
\* probe and transform it started earlier has signalled completion or error.
IsStart(e) == e.ev \in {"probeStart", "trimStart"}
IsEndOf(e, s) ==
    /\ e.req = s.req /\ e.idx = s.idx
    /\ IF s.ev = "probeStart" THEN e.ev \in {"probeOk", "probeErr"}
       ELSE e.ev \in {"trimOk", "trimErr"}
C7_OneFileAtATime ==
    \A r \in Reqs :
        /\ Cardinality({j \in jobs : j.req = r}) <= 1
        /\ \A k \in EventsOf(r) :
             engineLog[k].ev = "probeStart" =>
                \A m \in EventsOf(r) :
                    (m < k /\ IsStart(engineLog[m])) =>
                        /\ engineLog[m].idx < engineLog[k].idx
                        /\ \E n \in EventsOf(r) :
                             m < n /\ n < k /\ IsEndOf(engineLog[n], engineLog[m])

\* the probe of the second file started after the transform of the first ended
C7_Witness ==
    \E r \in Reqs :
        \E k, m \in EventsOf(r) :
            /\ k < m
            /\ engineLog[k].ev = "trimOk" /\ engineLog[k].idx = 0
            /\ engineLog[m].ev = "probeStart" /\ engineLog[m].idx = 1

\* C8: a request without a session identifier, without a file list or with an
\* empty file list is answered 400 and has caused no probe, no engine call and
\* no result entry.
C8_BadRequestRejected ==
    \A r \in Reqs :
        (/\ proc[r].pc # "idle"
         /\ \/ ~proc[r].body.sessionId.given
            \/ ~proc[r].body.files.given
            \/ proc[r].body.files.v = <<>>)
        => /\ proc[r].status = 400
           /\ Finished(r)
           /\ EventsOf(r) = {}
           /\ {j \in jobs : j.req = r} = {}
           /\ proc[r].processedFiles = <<>>
           /\ proc[r].resFiles = <<>>

\* a rejected request that named a session and gave an empty file list
C8_Witness ==
    \E r \in Reqs :
        /\ proc[r].status = 400
        /\ proc[r].body.sessionId.given
        /\ proc[r].body.files.given /\ proc[r].body.files.v = <<>>

\* C9: every Cleanup answers 200 and leaves no session directory; a Cleanup of
\* a session whose directory does not exist (cleaned before, or never created)
\* changes nothing in the store.
C9_CleanupIdempotent ==
    [][\A s \in DOMAIN cleanups :
          cleanups'[s] = cleanups[s] + 1 =>
              /\ last'.op = "cleanup" /\ last'.sid = s /\ last'.status = 200
              /\ SessionDir(s) \notin dirs'
              /\ ~PathExists(SessionDir(s)) => (dirs' = dirs /\ files' = files)]_vars

\* a second Cleanup of a session that an Upload had created
C9_Witness ==
    \E u \in uploaded :
        /\ cleanups[u.sessionId] >= 2
        /\ last.op = "cleanup" /\ last.sid = u.sessionId /\ last.status = 200

\* C10: once Cleanup of s has returned (and no Create-archive is in flight) the
\* output directory of s, every file in it and the archive file of s are gone,
\* and a retrieval of an output file or of the archive of s answers 404.
C10_CleanupRemovesAll ==
    \A s \in DOMAIN cleanups :
        (cleanups[s] >= 1 /\ \A z \in ZipReqs : zipreq[z].pc \in {"idle", "done"}) =>
            /\ SessionDir(s) \notin dirs
            /\ \A q \in DOMAIN files : ~IsPrefix(SessionDir(s), q)
            /\ ZipPath(s) \notin DOMAIN files
            /\ (last.op = "output" /\ last.sid = s) => last.status = 404
            /\ (last.op = "zips" /\ last.name = ZipFileName(s)) => last.status = 404

\* C11: a Create-archive request naming a session whose output directory does
\* not exist answers 404 and leaves every file as it was; one naming an
\* existing directory starts the archive, and an archive of an existing, empty
\* directory ends with 200 and a complete archive without entries.
C11_ArchiveNeedsDirectory ==
    [][\A z \in ZipReqs :
          LET s == zipreq'[z].sessionId
              received == zipreq[z].pc # "archiving" /\ zipreq'[z] # zipreq[z] /\ s # <<>>
              leaves == zipreq[z].pc = "archiving" /\ zipreq'[z].pc # "archiving"
          IN
          /\ (received /\ ~PathExists(SessionDir(s))) =>
                 /\ zipreq'[z].pc = "done" /\ zipreq'[z].status = 404
                 /\ files' = files
          /\ (received /\ PathExists(SessionDir(s))) => zipreq'[z].pc = "archiving"
          /\ (leaves /\ SessionDir(s) \in dirs /\ DirEntries(SessionDir(s)) = {}) =>
                 /\ zipreq'[z].pc = "done" /\ zipreq'[z].status = 200
                 /\ ZipPath(s) \in DOMAIN files'
                 /\ files'[ZipPath(s)] = ZipContent(FALSE, {})]_vars

\* an empty session was archived, removed by Cleanup and then refused
C11_Witness ==
    \E z \in ZipReqs, u \in uploaded :
        /\ zipreq[z].pc = "done" /\ zipreq[z].status = 404
        /\ zipreq[z].sessionId = u.sessionId
        /\ cleanups[u.sessionId] >= 1
        /\ ZipPath(u.sessionId) \in DOMAIN files
        /\ files[ZipPath(u.sessionId)] = ZipContent(FALSE, {})

\* C12: when a Create-archive request ends with 200, the archive is complete and
\* its entries are exactly the files the session's output directory holds at
\* that moment: one entry per file, named by the bare file name (a single
\* path segment) and carrying that file's content.
C12_ArchiveRoundTrip ==
    [][\A z \in ZipReqs :
          (zipreq[z].pc = "archiving" /\ zipreq'[z].pc = "done" /\ zipreq'[z].status = 200) =>
              LET s == zipreq[z].sessionId
                  dir == SessionDir(s)
                  F == {q \in DOMAIN files : Parent(q) = dir}
                  a == files'[ZipPath(s)]
              IN /\ a.kind = "zip" /\ ~a.open
                 /\ {e.name : e \in a.entries} = {<<q[Len(q)]>> : q \in F}
                 /\ Cardinality(a.entries) = Cardinality(F)
                 /\ \A e \in a.entries :
                       Len(e.name) = 1 /\ e.content = files[Append(dir, e.name[1])]]_vars

\* an archive of two trimmed files has been written
C12_Witness ==
    \E z \in ZipReqs :
        /\ zipreq[z].pc = "done" /\ zipreq[z].status = 200
        /\ LET a == files[ZipPath(zipreq[z].sessionId)] IN
             /\ Cardinality(a.entries) = 2
             /\ \A e \in a.entries : e.content.origin # NoOrigin

\* C13: when a Create-archive request is accepted for a session whose latest
\* Process request has answered 200, the files the archive is about to bundle
\* (the entries of the session's output directory) are exactly the files named
\* in that Process result list.
C13_ArchiveIsResultList ==
    [][\A z \in ZipReqs, r \in Reqs :
          LET s == zipreq'[z].sessionId IN
          (/\ zipreq[z].pc # "archiving" /\ zipreq'[z].pc = "archiving"
           /\ proc[r].pc = "done" /\ proc[r].status = 200 /\ proc[r].sessionId = s) =>
              {e.name : e \in DirEntries(SessionDir(s))} =
                  {<<proc[r].resFiles[k].fileName>> : k \in 1..Len(proc[r].resFiles)}]_vars

\* C14: a Retrieve-output-file request for an existing file of size N answers
\* 200 with declared length N and all N bytes when it has no Range header;
\* 206 with Content-Range a-b/N and b-a+1 bytes for bytes=a-b, 0 <= a <= b < N;
\* 206 with bytes a..N-1 for bytes=a-, a < N.
C14_RangeServing ==
    [][LET range == last'.range
           filePath == PathJoin(SessionDir(last'.sid), last'.name)
           N == Size(files[filePath])
           a == range.v.a
           b == range.v.b
       IN
       (nops' = nops + 1 /\ last'.op = "output" /\ filePath \in DOMAIN files) =>
           /\ ~range.given =>
                 last'.status = 200 /\ last'.length = N /\ last'.sent = N
           /\ (/\ range.given /\ range.v.unit = "bytes="
               /\ a.k = "num" /\ b.k = "num" /\ a.v <= b.v /\ b.v < N) =>
                 /\ last'.status = 206
                 /\ last'.start = a.v /\ last'.end = b.v /\ last'.total = N
                 /\ last'.length = (b.v - a.v) + 1 /\ last'.sent = (b.v - a.v) + 1
           /\ (/\ range.given /\ range.v.unit = "bytes="
               /\ a.k = "num" /\ b.k = "empty" /\ a.v < N) =>
                 /\ last'.status = 206
                 /\ last'.start = a.v /\ last'.end = N - 1 /\ last'.total = N
                 /\ last'.sent = N - a.v]_vars

\* a proper sub-range of a file of several bytes has been served
C14_Witness ==
    /\ last.op = "output" /\ last.status = 206
    /\ last.start > 0 /\ last.end < last.total - 1
    /\ last.sent = (last.end - last.start) + 1

\* C15: a Retrieve-output-file request for an existing file whose Range header
\* is malformed (a unit other than bytes=, a non-numeric start, an empty start)
\* is answered like one without a Range header: 200 with the whole file.
C15_MalformedRangeIgnored ==
    [][LET range == last'.range
           filePath == PathJoin(SessionDir(last'.sid), last'.name)
       IN
       (/\ nops' = nops + 1 /\ last'.op = "output" /\ filePath \in DOMAIN files
        /\ range.given
        /\ (range.v.unit # "bytes=" \/ range.v.a.k # "num")) =>
           /\ last'.status = 200
           /\ last'.length = Size(files[filePath])
           /\ last'.sent = Size(files[filePath])]_vars

C17_WritesInsideSession ==
    [][\A r \in Reqs :
          proc[r].pc = "executing" =>
              \A q \in DOMAIN files' :
                  (q \notin DOMAIN files \/ files'[q] # files[q]) =>
                      /\ Len(q) = Len(OUTPUT_DIR) + 2
                      /\ SubSeq(q, 1, Len(OUTPUT_DIR) + 1) = Append(OUTPUT_DIR, proc[r].sessionId)]_vars

\* C18: the base name of an accepted Process request is "trimmed" when the
\* request's outputBaseName is absent, empty or only whitespace; otherwise it is
\* the supplied name without its leading and trailing whitespace, inner
\* whitespace kept.  Every output file name starts with the base name.
AllSpace(s) == \A k \in 1..Len(s) : s[k] = " "

C18_BaseNameDefault ==
    \A r \in Reqs :
        (proc[r].pc # "idle" /\ proc[r].status # 400) =>
            LET raw == proc[r].body.outputBaseName
                b == proc[r].baseName
            IN /\ IF ~raw.given \/ AllSpace(raw.v)
                  THEN b = <<"trimmed">>
                  ELSE /\ b # <<>> /\ b[1] # " " /\ b[Len(b)] # " "
                       /\ \E i \in 0..Len(raw.v) :
                             /\ i + Len(b) <= Len(raw.v)
                             /\ b = SubSeq(raw.v, i + 1, i + Len(b))
                             /\ AllSpace(SubSeq(raw.v, 1, i))
                             /\ AllSpace(SubSeq(raw.v, i + Len(b) + 1, Len(raw.v)))
               /\ \A k \in 1..Len(proc[r].processedFiles) :
                     IsPrefix(Append(b, "_"), proc[r].processedFiles[k].fileName)

\* a padded name with inner whitespace has named an output file
C18_Witness ==
    \E r \in Reqs :
        /\ proc[r].body.outputBaseName = Given(<<" ", "c", " ", "d", " ">>)
        /\ proc[r].baseName = <<"c", " ", "d">>
        /\ proc[r].processedFiles # <<>>

\* C19: the start cut and the end cut of an accepted Process request are
\* >= 0, and each is 0 when its request field is absent or not a number; the
\* start offset handed to the engine is >= 0.
C19_CutsNonNegative ==
    /\ \A r \in Reqs :
          (proc[r].pc # "idle" /\ proc[r].status # 400) =>
              /\ proc[r].trimStartSeconds >= 0
              /\ proc[r].trimEndSeconds >= 0
              /\ (~proc[r].body.trimStart.given \/ ~proc[r].body.trimStart.v.num) =>
                    proc[r].trimStartSeconds = 0
              /\ (~proc[r].body.trimEnd.given \/ ~proc[r].body.trimEnd.v.num) =>
                    proc[r].trimEndSeconds = 0
    /\ \A k \in 1..Len(engineLog) :
          engineLog[k].ev = "trimStart" => engineLog[k].ss >= 0

StandardType(ext) ==
    CASE ext = ".mp4" -> "video/mp4"
      [] ext = ".mov" -> "video/quicktime"
      [] ext = ".avi" -> "video/x-msvideo"
      [] ext = ".mkv" -> "video/x-matroska"
      [] ext = ".webm" -> "video/webm"
      [] OTHER -> "none"

Supported(f) ==
    /\ ExtName(f.originalname) # <<>>
    /\ f.mimetype = StandardType(ExtName(f.originalname)[1])

C21_AllowListedFormats ==
    [][nupload' = nupload + 1 =>
       \A batch \in Batches :
          /\ UploadAccepted(batch) => \A k \in 1..Len(batch) : Supported(batch[k])
          /\ UploadRejected(batch) => \E k \in 1..Len(batch) : ~Supported(batch[k])]_vars

\* C22: a Create-archive request that has ended has sent a response, and one
\* whose archive stream reported an error has sent the failure response 500.
C22_ArchiveErrorAnswered ==
    \A z \in ZipReqs :
        /\ zipreq[z].pc \in {"done", "rejected"} => zipreq[z].status \in {200, 400, 404, 500}
        /\ zipreq[z].pc = "rejected" => zipreq[z].status = 500

\* C23: when one of two Process requests on different sessions has answered,
\* under any interleaving with the other, its result list and the files of its
\* own session's output directory are those of the request run alone: one
\* output per input file whose window is feasible, in input order, named by
\* the file's position and holding the selected interval of that input.
Kept(r) ==
    {k \in 1..Len(proc[r].files) :
        /\ proc[r].files[k].uploadPath \in DOMAIN files
        /\ ~TooShort(variant, files[proc[r].files[k].uploadPath].duration,
                     proc[r].trimStartSeconds, proc[r].trimEndSeconds)}

KeptAt(r, j) == CHOOSE k \in Kept(r) : Cardinality({i \in Kept(r) : i <= k}) = j

AloneName(r, k) == OutputFileName(proc[r].baseName, k - 1, proc[r].files[k])

AloneEntries(r) ==
    {[name |-> <<AloneName(r, k)>>,
      content |->
          LET path == proc[r].files[k].uploadPath
              from == proc[r].trimStartSeconds
              to == files[path].duration - proc[r].trimEndSeconds
          IN MediaContent(to - from, TRUE, TRUE, [input |-> path, ss |-> from, to |-> to])] :
        k \in Kept(r)}

C23_NoInterference ==
    \A r \in DOMAIN proc :
        proc[r].pc = "done" =>
            /\ proc[r].status = 200
            /\ Len(proc[r].resFiles) = Cardinality(Kept(r))
            /\ \A j \in 1..Len(proc[r].resFiles) :
                  proc[r].resFiles[j].fileName = AloneName(r, KeptAt(r, j))
            /\ DirEntries(SessionDir(proc[r].sessionId)) = AloneEntries(r)

\* both requests have answered after running interleaved, with different cuts
C23_Witness ==
    /\ \A r \in DOMAIN proc : proc[r].pc = "done" /\ proc[r].resFiles # <<>>
    /\ \E r, q \in DOMAIN proc :
          /\ r # q /\ proc[r].trimStartSeconds # proc[q].trimStartSeconds
          /\ \E i, j, k \in 1..Len(engineLog) :
                /\ i < j /\ j < k
                /\ engineLog[i].req = r /\ engineLog[j].req = q /\ engineLog[k].req = r

\* C24: the two builds plan the same window.  When a Process request has
\* probed a file of duration D and plans it with non-negative cuts S and E, the
\* re-encode build and the stream-copy build either both skip the file, or
\* both hand the engine a call that selects the interval from S to D - E.
Planning(r) ==
    /\ proc[r].pc = "probing"
    /\ ProbeSucceeds(CurFile(r).uploadPath)
    /\ proc[r].trimStartSeconds >= 0
    /\ proc[r].trimEndSeconds >= 0

Agree(D, S, E) ==
    /\ TooShort("reencode", D, S, E) = TooShort("streamcopy", D, S, E)
    /\ ~TooShort("reencode", D, S, E) =>
          /\ WindowStart(EngineArgs("reencode", D, S, E)) = S
          /\ WindowStart(EngineArgs("streamcopy", D, S, E)) = S
          /\ WindowEnd(EngineArgs("reencode", D, S, E)) = D - E
          /\ WindowEnd(EngineArgs("streamcopy", D, S, E)) = D - E

C24_VariantsAgree ==
    \A r \in DOMAIN proc :
        Planning(r) =>
            Agree(ProbedDuration(CurFile(r).uploadPath),
                  proc[r].trimStartSeconds, proc[r].trimEndSeconds)

\* C25: a Create-archive request answers 200 only in the step that closes the
\* archive's output stream, with the archive complete; and a Retrieve-archive
\* request for the archive of a request that has answered 200 is served a
\* closed archive, whole.
C25_AnswerAfterClose ==
    [][/\ \A z \in ZipReqs :
            (zipreq'[z].status = 200 /\ zipreq[z].status # 200) =>
                LET a == files'[ZipPath(zipreq'[z].sessionId)] IN
                /\ zipreq[z].pc = "archiving"
                /\ a.kind = "zip" /\ ~a.open
                /\ a.entries = DirEntries(SessionDir(zipreq'[z].sessionId))
       /\ \A z \in ZipReqs :
            (/\ nops' = nops + 1
             /\ last'.op = "zips" /\ last'.status = 200
             /\ zipreq[z].pc = "done" /\ zipreq[z].status = 200
             /\ last'.name = ZipFileName(zipreq[z].sessionId)) =>
                LET a == files[ZipPath(zipreq[z].sessionId)] IN
                /\ a.kind = "zip" /\ ~a.open
                /\ last'.sent = Size(a)]_vars

\* the archive of a processed session was announced and then retrieved whole
C25_Witness ==
    \E z \in ZipReqs :
        /\ zipreq[z].pc = "done" /\ zipreq[z].status = 200
        /\ last.op = "zips" /\ last.status = 200
        /\ last.name = ZipFileName(zipreq[z].sessionId)
        /\ ~files[ZipPath(zipreq[z].sessionId)].open
        /\ files[ZipPath(zipreq[z].sessionId)].entries # {}
        /\ last.sent = Size(files[ZipPath(zipreq[z].sessionId)])

\* C26: a session has at most one archive file: every file of the archive
\* directory is the archive of one uploaded session, under the one name made
\* from that session's identifier; and a Create-archive request that ends with
\* 200 replaces that file, adding no other file, by the archive of what the
\* session's output directory holds now, whatever the file held before.
C26_OneArchivePerSession ==
    [][/\ \A q \in DOMAIN files' :
            Parent(q) = ZIP_DIR =>
                \E u \in uploaded' : q = ZipPath(u.sessionId)
       /\ \A z \in ZipReqs :
            (zipreq[z].pc = "archiving" /\ zipreq'[z].status = 200) =>
                LET s == zipreq[z].sessionId IN
                /\ DOMAIN files' = DOMAIN files \cup {ZipPath(s)}
                /\ \A q \in DOMAIN files : q # ZipPath(s) => files'[q] = files[q]
                /\ files'[ZipPath(s)] = ZipContent(FALSE, DirEntries(SessionDir(s)))]_vars

\* an archive with one entry was retrieved, and the session's archive now is a
\* later one with two entries
C26_Witness ==
    \E z \in ZipReqs :
        LET s == zipreq[z].sessionId IN
        /\ zipreq[z].pc = "done" /\ zipreq[z].status = 200
        /\ last.op = "zips" /\ last.status = 200 /\ last.name = ZipFileName(s)
        /\ last.sent = 2
        /\ ~files[ZipPath(s)].open
        /\ Cardinality(files[ZipPath(s)].entries) = 2
        /\ Cardinality({q \in DOMAIN files : Parent(q) = ZIP_DIR}) = 1

\* C27: within one Process request every entry of the file list is probed at
\* most once and the engine's transform is started at most once for it, and
\* only after its probe succeeded, whether the attempt ends well or not; the
\* transforms started for a request are never more than its files.
Events(r, i, ev) ==
    {k \in 1..Len(engineLog) :
        engineLog[k].req = r /\ engineLog[k].idx = i /\ engineLog[k].ev = ev}

C27_NoRetry ==
    \A r \in Reqs :
        /\ \A k \in 1..Len(engineLog) :
              engineLog[k].req = r => engineLog[k].idx \in 0..Len(proc[r].files) - 1
        /\ \A i \in 0..Len(proc[r].files) - 1 :
              /\ Cardinality(Events(r, i, "probeStart")) <= 1
              /\ Cardinality(Events(r, i, "trimStart")) <= 1
              /\ Cardinality(Events(r, i, "probeErr")) + Cardinality(Events(r, i, "probeOk")) <= 1
              /\ Cardinality(Events(r, i, "trimErr")) + Cardinality(Events(r, i, "trimOk")) <= 1
              /\ Events(r, i, "trimStart") # {} => Events(r, i, "probeOk") # {}
        /\ Cardinality({k \in 1..Len(engineLog) :
                           engineLog[k].req = r /\ engineLog[k].ev = "trimStart"})
              <= Len(proc[r].files)

\* a request has ended with 500 after one transform succeeded and the next
\* failed, each started once
C27_Witness ==
    \E r \in Reqs :
        /\ proc[r].pc = "done" /\ proc[r].status = 500
        /\ \E i, j \in 0..Len(proc[r].files) - 1 :
              /\ i < j
              /\ Cardinality(Events(r, i, "trimOk")) = 1
              /\ Cardinality(Events(r, j, "trimErr")) = 1
              /\ Cardinality(Events(r, j, "trimStart")) = 1

\* C28: an accepted Process request eventually ends with a response, and it
\* sends one response only: once it has answered, nothing of it changes.  On
\* the way it takes the files in list order, each at most once: a file is
\* probed, then planned (which skips it or starts the transform), then
\* executed, and the loop index never goes back.
Visit(r) ==
    LET p == proc[r].pc
        q == proc'[r].pc
        i == proc[r].i
        j == proc'[r].i
        n == Len(proc[r].files)
    IN
    \/ p = "loop" /\ q = "loop" /\ j = i + 1 /\ i < n
    \/ p = "loop" /\ q = "probing" /\ j = i /\ i < n
    \/ p = "loop" /\ q = "done" /\ i >= n /\ proc'[r].status = 200
    \/ p = "probing" /\ q = "loop" /\ j = i + 1
    \/ p = "probing" /\ q = "executing" /\ j = i
    \/ p = "probing" /\ q = "done" /\ proc'[r].status = 500
    \/ p = "executing" /\ q = "loop" /\ j = i + 1
    \/ p = "executing" /\ q = "done" /\ proc'[r].status = 500

C28_EventuallyAnswered ==
    /\ \A r \in Reqs :
          (proc[r].pc \in {"loop", "probing", "executing"}) ~>
              (proc[r].pc = "done" /\ proc[r].status \in {200, 500})
    /\ [][\A r \in Reqs :
            /\ proc[r].status # 0 => proc'[r] = proc[r]
            /\ (proc[r].status = 0 /\ proc[r].pc # "idle" /\ proc'[r] # proc[r]) =>
                   Visit(r)]_vars

\* a request has answered 200 with two results after skipping a file
C28_Witness ==
    \E r \in Reqs :
        /\ proc[r].pc = "done" /\ proc[r].status = 200
        /\ Len(proc[r].resFiles) = 2
        /\ Len(proc[r].files) = 3

\* C29: the client's flow sends Upload, then Process, then Create-archive, each
\* after the response to the one before: the server has a Process request only
\* for a session whose Upload response the client holds, and a Create-archive
\* request only after it answered that session's Process request with 200 and
\* the client took the results.  When Upload or Process is answered with an
\* error, no Create-archive request is sent or received and no archive URL is
\* shown; an archive URL is shown only for an archive announced with 200.
C29_ClientOrder ==
    /\ \E n \in 0..3 : client.sent = SubSeq(<<"upload", "process", "zip">>, 1, n)
    /\ Len(client.sent) >= 2 =>
          /\ last.op = "upload" /\ last.status = 200
          /\ client.uploadResponse \in uploaded
          /\ client.uploadResponse.sessionId = last.sid
    /\ \A r \in Reqs :
          proc[r].pc # "idle" =>
              /\ Len(client.sent) >= 2
              /\ proc[r].sessionId = client.uploadResponse.sessionId
              /\ proc[r].files = client.uploadResponse.files
    /\ Len(client.sent) = 3 =>
          \E r \in Reqs :
              /\ proc[r].pc = "done" /\ proc[r].status = 200
              /\ client.processedFiles = proc[r].resFiles
    /\ \A z \in ZipReqs :
          zipreq[z].pc # "idle" =>
              /\ Len(client.sent) = 3
              /\ zipreq[z].sessionId = client.uploadResponse.sessionId
    /\ ((last.op = "upload" /\ last.status # 200)
          \/ \E r \in Reqs : proc[r].pc = "done" /\ proc[r].status # 200) =>
          /\ Len(client.sent) < 3
          /\ \A z \in ZipReqs : zipreq[z].pc = "idle"
          /\ client.zipUrl = NoUrl
    /\ client.zipUrl # NoUrl =>
          \E z \in ZipReqs :
              /\ zipreq[z].pc = "done" /\ zipreq[z].status = 200
              /\ client.zipUrl = ZipUrl(ZipFileName(client.uploadResponse.sessionId))

\* the Process request failed after it had written an output file: the client
\* has stopped, no Create-archive request exists and no archive URL is shown
C29_Witness ==
    /\ client.pc = "failed" /\ ~client.isProcessing
    /\ client.sent = <<"upload", "process">>
    /\ client.zipUrl = NoUrl
    /\ \E r \in Reqs : proc[r].pc = "done" /\ proc[r].status = 500
    /\ \E q \in DOMAIN files : Parent(q) = SessionDir(client.uploadResponse.sessionId)
    /\ \A z \in ZipReqs : zipreq[z].pc = "idle"

\* C30: when a Process request has answered and the same request (same
\* session, file list, cuts and base name) is served again, no step of the
\* second run adds or removes a file or a directory: it writes only over the
\* names the first run left; the uploaded originals stay present and
\* unchanged; and the second run ends with the status and the result list of
\* the first.
C30_ProcessIdempotent ==
    [][(/\ proc["p1"].pc = "done"
        /\ proc'["p2"] # proc["p2"]
        /\ proc'["p2"].body = proc["p1"].body) =>
           /\ DOMAIN files' = DOMAIN files
           /\ dirs' = dirs
           /\ \A q \in DOMAIN files : Parent(q) = UPLOAD_DIR => files'[q] = files[q]
           /\ \A k \in 1..Len(proc["p1"].files) :
                 proc["p1"].files[k].uploadPath \in DOMAIN files'
           /\ proc'["p2"].pc = "done" =>
                 /\ proc'["p2"].status = proc["p1"].status
                 /\ proc'["p2"].resFiles = proc["p1"].resFiles]_vars

\* both runs have answered 200 with the same non-empty list, and the engine
\* has written the same output path twice
C30_Witness ==
    /\ proc["p1"].pc = "done" /\ proc["p2"].pc = "done"
    /\ proc["p1"].status = 200 /\ proc["p2"].status = 200
    /\ proc["p2"].body = proc["p1"].body
    /\ proc["p2"].resFiles = proc["p1"].resFiles /\ proc["p1"].resFiles # <<>>
    /\ \E j, k \in 1..Len(engineLog) :
          /\ j < k
          /\ engineLog[j].ev = "trimOk" /\ engineLog[k].ev = "trimOk"
          /\ engineLog[j].req = "p1" /\ engineLog[k].req = "p2"
          /\ engineLog[j].output = engineLog[k].output

\* C31: every Retrieve-output-file request answered 206 on a file of size N
\* reports a Content-Range with 0 <= start <= end <= N - 1 and a Content-Length
\* end - start + 1 that is the number of bytes delivered, whatever end and
\* start the request named.
C31_RangeWithinFile ==
    [][(nops' = nops + 1 /\ last'.op = "output" /\ last'.status = 206) =>
          LET N == Size(files[PathJoin(SessionDir(last'.sid), last'.name)]) IN
          /\ last'.total = N
          /\ 0 <= last'.start /\ last'.start <= last'.end /\ last'.end <= N - 1
          /\ last'.length = last'.end - last'.start + 1
          /\ last'.sent = last'.length]_vars

\* C32: a directory directly under the output root appears only in the step of
\* an accepted Upload, under the identifier that Upload drew; and once a Cleanup
\* of s has returned, the directory of s does not exist after any step, no step
\* lengthens the result list of a Process on s, and every Create-archive
\* received for s ends at once with 404.
C32_OnlyUploadCreates ==
    [][/\ \A d \in dirs' \ dirs :
             Parent(d) = OUTPUT_DIR =>
                 /\ nupload' = nupload + 1
                 /\ \E u \in uploaded' \ uploaded : d = SessionDir(u.sessionId)
       /\ \A s \in DOMAIN cleanups :
             cleanups'[s] >= 1 =>
                 /\ SessionDir(s) \notin dirs'
                 /\ cleanups[s] >= 1 =>
                       /\ \A r \in Reqs :
                             proc'[r].sessionId = s =>
                                 Len(proc'[r].processedFiles) <= Len(proc[r].processedFiles)
                       /\ \A z \in ZipReqs :
                             (zipreq'[z] # zipreq[z] /\ zipreq[z].pc # "archiving"
                                /\ zipreq'[z].sessionId = s) =>
                                 (zipreq'[z].pc = "done" /\ zipreq'[z].status = 404)]_vars

\* a session that an Upload created and a Cleanup removed: a Process on it got
\* as far as the transform of a present, encodable input, which failed, and
\* ended with 500 and no result list; a Create-archive on it answered 404
C32_Witness ==
    \E u \in uploaded : \E r \in Reqs : \E z \in ZipReqs :
        /\ cleanups[u.sessionId] >= 1
        /\ SessionDir(u.sessionId) \notin dirs
        /\ proc[r].pc = "done" /\ proc[r].sessionId = u.sessionId
        /\ proc[r].status = 500 /\ proc[r].processedFiles = <<>>
        /\ \E k \in 1..Len(engineLog) :
              /\ engineLog[k].ev = "trimErr" /\ engineLog[k].req = r
              /\ engineLog[k].input \in DOMAIN files
              /\ files[engineLog[k].input].encodeOk
        /\ zipreq[z].pc = "done" /\ zipreq[z].sessionId = u.sessionId
        /\ zipreq[z].status = 404

====
